---- MODULE Spec2Model ----
(***************************************************************************)
(* SmartGuard multi-layer malware scoring engine: MalwareEngine.scan_file  *)
(* with its three layers (SignatureScanner, MLScanner, HeuristicScanner)   *)
(* and the HybridThreatDetector ensemble it may delegate to.               *)
(*                                                                         *)
(* Number representation.  Python floats are modelled by exact rationals   *)
(* over fixed denominators, so that no product or quotient is rounded:     *)
(*   probabilities and F1 metrics   in fourteenths     (PDen)              *)
(*   ensemble weights               in 1/840           (WDen)              *)
(*   ensemble scores, confidences   in 1/11760         (FDen = WDen*PDen)  *)
(*   risk scores                    in 1/58800 point   (Unit)              *)
(*   entropies                      in tenths of a bit                     *)
(***************************************************************************)
EXTENDS Integers, Sequences, FiniteSets, TLC

VARIABLES ensemble, weights, pc, call, verdict, locals,
          tpc, tcall, tlayers, tverdict, seen,
          predictor, score_history, presult, pstream,
          ecall, eresult,
          swindow, per_stream, histories, streams, base, rounds,
          discipline, lock, tuner, reader,
          history_file, files, log, query, answer,
          malware_engine, api_history, response, scans

vars == <<ensemble, weights, pc, call, verdict, locals,
          tpc, tcall, tlayers, tverdict, seen,
          predictor, score_history, presult, pstream,
          ecall, eresult,
          swindow, per_stream, histories, streams, base, rounds,
          discipline, lock, tuner, reader,
          history_file, files, log, query, answer,
          malware_engine, api_history, response, scans>>

engineVars == <<pc, call, verdict, locals>>
threadVars == <<tpc, tcall, tlayers, tverdict, seen>>
predictorVars == <<predictor, score_history, presult, pstream>>
detectorVars == <<ecall, eresult>>
streamVars == <<swindow, per_stream, histories, streams, base, rounds>>
raceVars == <<discipline, lock, tuner, reader>>
storeVars == <<history_file, files, log, query, answer>>
apiVars == <<malware_engine, api_history, response, scans>>
laterVars == <<streamVars, raceVars, storeVars, apiVars>>

-----------------------------------------------------------------------------
(* Bounds of the model *)

\* largest number of word tokens in a filename stem
MaxStemTokens == 2

-----------------------------------------------------------------------------
(* Units *)

\* least common multiple of 1 .. 8 and of 10: every quotient of two sums of
\* at most four metrics in halves, and the default weights, are whole
WDen == 8 * 3 * 5 * 7
\* sub-model probabilities are floats (predict_proba): besides 0, 1/2 and 1
\* the model keeps one value, 1/14, whose weighted share of a risk score is
\* not a whole number of tenths of a point
PDen == 2 * 7
FDen == PDen * WDen
Unit == 5 * FDen

Points(p) == p * Unit

Min(a, b) == IF a <= b THEN a ELSE b
Max(a, b) == IF a >= b THEN a ELSE b
Abs(a) == IF a >= 0 THEN a ELSE 0 - a

RECURSIVE SumSeq(_)
SumSeq(s) == IF s = <<>> THEN 0 ELSE Head(s) + SumSeq(Tail(s))

RECURSIVE MaxSeq(_)
MaxSeq(s) == IF Len(s) = 1 THEN s[1] ELSE Max(Head(s), MaxSeq(Tail(s)))

RECURSIVE MinSeq(_)
MinSeq(s) == IF Len(s) = 1 THEN s[1] ELSE Min(Head(s), MinSeq(Tail(s)))

-----------------------------------------------------------------------------
(* Byte buffers.  A buffer is described by the properties the scanners     *)
(* read from it: its length, its SHA-256, whether the EICAR string occurs  *)
(* in it, its magic-number prefix, the heuristic regexes its decoded text  *)
(* matches, its Shannon entropy, the entropies of its ten equal chunks,    *)
(* and the outputs the injected sub-models give on its feature row.        *)

EmptySha == "e3b0c44298fc1c149afbf4c8996fb92427ae41e4649b934ca495991b7852b855"

Probs == {0, 1, PDen \div 2, PDen}

Contents ==
  [ empty |->
      [len |-> 0, sha256 |-> EmptySha, eicar |-> FALSE, magic |-> "",
       hits |-> {}, entropy |-> 0, chunks |-> [i \in 1 .. 10 |-> 0], iso |-> 1],
    zeros2048 |->
      [len |-> 2048, sha256 |-> "sha-zeros2048", eicar |-> FALSE, magic |-> "",
       hits |-> {}, entropy |-> 0, chunks |-> [i \in 1 .. 10 |-> 0], iso |-> -1],
    eicar |->
      [len |-> 68, sha256 |-> "sha-eicar", eicar |-> TRUE, magic |-> "",
       hits |-> {"virus"}, entropy |-> 49, chunks |-> [i \in 1 .. 10 |-> 25], iso |-> 0],
    text |->
      [len |-> 11, sha256 |-> "sha-text", eicar |-> FALSE, magic |-> "",
       hits |-> {}, entropy |-> 28, chunks |-> [i \in 1 .. 10 |-> 0], iso |-> 1],
    script |->
      [len |-> 300, sha256 |-> "sha-script", eicar |-> FALSE, magic |-> "",
       hits |-> {"<script", "eval(", "powershell", "http://"},
       entropy |-> 45, chunks |-> [i \in 1 .. 10 |-> 40], iso |-> 0],
    dropper |->
      [len |-> 2000, sha256 |-> "sha-dropper", eicar |-> FALSE, magic |-> "",
       hits |-> {"cmd.exe", "base64", "trojan"},
       entropy |-> 52,
       chunks |-> [i \in 1 .. 10 |-> IF i <= 5 THEN 15 ELSE 45], iso |-> 0],
    packedexe |->
      [len |-> 4096, sha256 |-> "sha-packedexe", eicar |-> FALSE, magic |-> "MZ",
       hits |-> {}, entropy |-> 80,
       chunks |-> [i \in 1 .. 10 |-> IF i = 1 THEN 40 ELSE 78], iso |-> -1],
    hidden |->
      [len |-> 4096, sha256 |-> "sha-hidden", eicar |-> FALSE, magic |-> "%PDF",
       hits |-> {}, entropy |-> 45,
       chunks |-> [i \in 1 .. 10 |-> IF i <= 5 THEN 0 ELSE 70], iso |-> -1] ]

ContentNames == DOMAIN Contents

Buffers ==
  { [content |-> c, rf |-> r, pattern |-> p] :
      c \in ContentNames, r \in Probs, p \in Probs }

Bytes(buf) == Contents[buf.content]

-----------------------------------------------------------------------------
(* Filenames.  A filename is a stem made of word tokens followed by an     *)
(* extension; substring tests are made token by token.                     *)

StemTokens == {"report", "Trojan", "payload", "stealth"}
Exts == {"", ".txt", ".LOG", ".bin", ".exe", ".bat"}

Stems == { s \in SUBSET StemTokens : Cardinality(s) >= 1 /\ Cardinality(s) <= MaxStemTokens }

Filenames == { [stem |-> s, ext |-> e] : s \in Stems, e \in Exts }

lower(t) ==
  CASE t = "Trojan" -> "trojan"
    [] t = "Normal" -> "normal"
    [] t = ".LOG" -> ".log"
    [] OTHER -> t

\* filename.lower()
filename_lowercase(filename) ==
  [stem |-> { lower(t) : t \in filename.stem }, ext |-> lower(filename.ext)]

\* kw in name, for a name already lower-cased or not
Contains(name, kw) == kw \in name.stem

\* os.path.splitext(filename.lower())[1]
splitext(filename) == filename_lowercase(filename).ext

endswith(name, suffixes) == name.ext \in suffixes

-----------------------------------------------------------------------------
(* Layer 1: SignatureScanner *)

KNOWN_THREATS ==
  { EmptySha,
    "44d88612fea8a8f36de82e1278abb02f",
    "0000000000000000000000000000000000000000000000000000000000000000" }

MAGIC_MAP ==
  [ m \in {"\\xff\\xd8", "\\x89PNG", "ID3", "ftyp", "%PDF", "PK", "MZ"} |->
      CASE m = "\\xff\\xd8" -> "image/jpeg"
        [] m = "\\x89PNG" -> "image/png"
        [] m = "ID3" -> "audio/mpeg"
        [] m = "ftyp" -> "video/mp4"
        [] m = "%PDF" -> "application/pdf"
        [] m = "PK" -> "application/zip/docx"
        [] m = "MZ" -> "application/x-msdos-program (EXE)" ]

suspicious_exts == {".exe", ".bat", ".sh", ".py", ".js", ".vbs"}

\* a list of (condition, threat, increment) steps, applied in order
RECURSIVE Accumulate(_)
Accumulate(steps) ==
  IF steps = <<>> THEN [threats |-> <<>>, risk_score |-> 0]
  ELSE LET rest == Accumulate(SubSeq(steps, 1, Len(steps) - 1))
           last == steps[Len(steps)]
       IN  IF last.cond
           THEN [threats |-> Append(rest.threats, last.threat),
                 risk_score |-> rest.risk_score + last.add]
           ELSE rest

\* SignatureScan returning the sum of the increments without the clamp to 100
SignatureScan_NoClamp(buf, filename) ==
  LET file_data == Bytes(buf)
      ext == splitext(filename)
      detected_mime == IF file_data.magic \in DOMAIN MAGIC_MAP
                       THEN MAGIC_MAP[file_data.magic] ELSE "unknown"
      acc == Accumulate(<<
               [cond |-> file_data.eicar,
                threat |-> "EICAR Standard Anti-Malware Test File Detected", add |-> 100],
               [cond |-> file_data.sha256 \in KNOWN_THREATS,
                threat |-> "Known Malware Signature Match", add |-> 100],
               [cond |-> ext \in suspicious_exts,
                threat |-> "Suspicious file extension detected", add |-> 30],
               [cond |-> detected_mime = "application/x-msdos-program (EXE)"
                         /\ ext \notin {".exe", ".scr", ".com"},
                threat |-> "Executable content hidden in non-executable extension", add |-> 60] >>)
  IN  [sha256 |-> file_data.sha256,
       detected_mime |-> detected_mime,
       threats |-> acc.threats,
       risk_score |-> Points(acc.risk_score),
       layer |-> "Signature"]

SignatureScan(buf, filename) ==
  LET file_data == Bytes(buf)
      ext == splitext(filename)
      detected_mime == IF file_data.magic \in DOMAIN MAGIC_MAP
                       THEN MAGIC_MAP[file_data.magic] ELSE "unknown"
      acc == Accumulate(<<
               [cond |-> file_data.eicar,
                threat |-> "EICAR Standard Anti-Malware Test File Detected", add |-> 100],
               [cond |-> file_data.sha256 \in KNOWN_THREATS,
                threat |-> "Known Malware Signature Match", add |-> 100],
               [cond |-> ext \in suspicious_exts,
                threat |-> "Suspicious file extension detected", add |-> 30],
               [cond |-> detected_mime = "application/x-msdos-program (EXE)"
                         /\ ext \notin {".exe", ".scr", ".com"},
                threat |-> "Executable content hidden in non-executable extension", add |-> 60] >>)
  IN  [sha256 |-> file_data.sha256,
       detected_mime |-> detected_mime,
       threats |-> acc.threats,
       risk_score |-> Points(Min(acc.risk_score, 100)),
       layer |-> "Signature"]

-----------------------------------------------------------------------------
(* Layer 3: HeuristicScanner *)

CategoryOrder ==
  << "JavaScript / Scripting", "Shell / OS Access", "Obfuscation Indicators",
     "Web Communication", "PDF Intelligence", "Malicious Intent" >>

SUSPICIOUS_PATTERNS ==
  [ c \in { CategoryOrder[i] : i \in 1 .. Len(CategoryOrder) } |->
      CASE c = "JavaScript / Scripting" ->
             {"<script", "javascript:", "eval(", "setTimeout(", "document.location"}
        [] c = "Shell / OS Access" ->
             {"cmd.exe", "/bin/sh", "/bin/bash", "powershell", "shell_exec", "system("}
        [] c = "Obfuscation Indicators" ->
             {"base64", "char(", "str_replace", "\\u[0-9a-fA-F]{4}", "0x[0-9a-fA-F]{2,}"}
        [] c = "Web Communication" ->
             {"http://", "https://", "ftp://", "socket("}
        [] c = "PDF Intelligence" ->
             {"/JS", "/JavaScript", "/OpenAction", "/AA", "/AcroForm", "/RichMedia"}
        [] c = "Malicious Intent" ->
             {"malicious", "virus", "payload", "trojan", "hack", "exploit"} ]

\* re_search over the decoded content only, without the filename
re_search_ContentOnly(pattern, buf, filename) ==
  pattern \in Bytes(buf).hits

\* re.search(pattern, f"{content_str} {filename}", re.IGNORECASE)
re_search(pattern, buf, filename) ==
  \/ pattern \in Bytes(buf).hits
  \/ Contains(filename_lowercase(filename), pattern)

HeuristicScan(buf, filename) ==
  LET category_matches(c) ==
        Cardinality({ p \in SUSPICIOUS_PATTERNS[c] : re_search(p, buf, filename) })
      acc == Accumulate([ i \in 1 .. Len(CategoryOrder) |->
               [cond |-> category_matches(CategoryOrder[i]) > 0,
                threat |-> CategoryOrder[i],
                add |-> (IF CategoryOrder[i] = "Malicious Intent" THEN 25 ELSE 20)
                         * category_matches(CategoryOrder[i])] ])
  IN  [threats |-> acc.threats,
       risk_score |-> Points(Min(acc.risk_score, 100)),
       layer |-> "Heuristic"]

-----------------------------------------------------------------------------
(* HybridThreatDetector *)

\* self.weights = {'rf': 0.4, 'pattern': 0.4, 'anomaly': 0.2}
InitialWeights ==
  [ k \in {"rf", "pattern", "anomaly"} |->
      IF k = "anomaly" THEN (2 * WDen) \div 10 ELSE (4 * WDen) \div 10 ]

\* variant: a fixed cut on the raw decision_function score in place of the
\* normalisation within the batch
get_reconstruction_error_FixedCut(scores) ==
  [i \in 1 .. Len(scores) |-> IF scores[i] <= 0 THEN PDen ELSE 0]

\* AnomalyDetectorSklearn.get_reconstruction_error on the decision_function
\* scores of a batch: min-max normalised within the batch, inverted
get_reconstruction_error(scores) ==
  IF Len(scores) = 0 THEN <<>>
  ELSE LET min_score == MinSeq(scores)
           max_score == MaxSeq(scores)
       IN  IF max_score = min_score
           THEN [i \in 1 .. Len(scores) |-> 0]
           ELSE [i \in 1 .. Len(scores) |->
                   ((max_score - scores[i]) * PDen) \div (max_score - min_score)]

\* variant: a clip without its upper limit
clip_LowerOnly(x, lo, hi) == Max(lo, x)

clip(x, lo, hi) == Max(lo, Min(x, hi))

\* variant: a score of exactly 0.5 is labelled 1
predict_AtLeastHalf(w, X) ==
  LET n == Len(X)
      ae_scores == get_reconstruction_error([i \in 1 .. n |-> X[i].iso])
      final_scores == [i \in 1 .. n |->
                         w["rf"] * X[i].rf
                         + w["pattern"] * X[i].pattern
                         + w["anomaly"] * ae_scores[i]]
  IN  [final_prediction |-> [i \in 1 .. n |-> IF 2 * final_scores[i] >= FDen THEN 1 ELSE 0],
       final_score |-> final_scores,
       rf_contribution |-> [i \in 1 .. n |-> w["rf"] * X[i].rf],
       cnn_contribution |-> [i \in 1 .. n |-> w["pattern"] * X[i].pattern],
       ae_contribution |-> [i \in 1 .. n |-> w["anomaly"] * ae_scores[i]],
       confidence |-> [i \in 1 .. n |->
                         clip(Abs(2 * final_scores[i] - FDen), 0, FDen)]]

\* HybridThreatDetector.predict on a batch of feature rows, under weights w
predict(w, X) ==
  LET n == Len(X)
      rf_proba == [i \in 1 .. n |-> X[i].rf]
      pattern_proba == [i \in 1 .. n |-> X[i].pattern]
      ae_scores == get_reconstruction_error([i \in 1 .. n |-> X[i].iso])
      final_scores == [i \in 1 .. n |->
                         w["rf"] * rf_proba[i]
                         + w["pattern"] * pattern_proba[i]
                         + w["anomaly"] * ae_scores[i]]
  IN  [final_prediction |-> [i \in 1 .. n |-> IF 2 * final_scores[i] > FDen THEN 1 ELSE 0],
       final_score |-> final_scores,
       rf_contribution |-> [i \in 1 .. n |-> w["rf"] * rf_proba[i]],
       cnn_contribution |-> [i \in 1 .. n |-> w["pattern"] * pattern_proba[i]],
       ae_contribution |-> [i \in 1 .. n |-> w["anomaly"] * ae_scores[i]],
       confidence |-> [i \in 1 .. n |->
                         clip(Abs(2 * final_scores[i] - FDen), 0, FDen)]]

\* metrics: a mapping from metric names to F1 scores in halves
MetricKeys == {"rf_f1", "pattern_f1", "anomaly_f1", "accuracy"}
F1Values == {0, PDen \div 2, PDen}

RECURSIVE SumValues(_)
SumValues(metrics) ==
  IF DOMAIN metrics = {} THEN 0
  ELSE LET k == CHOOSE x \in DOMAIN metrics : TRUE
       IN  metrics[k] + SumValues([x \in DOMAIN metrics \ {k} |-> metrics[x]])

\* the weights tune_weights(metrics) leaves behind
tune_weights(w, metrics) ==
  LET total_score == SumValues(metrics)
      metric_key(key) == CASE key = "rf" -> "rf_f1"
                           [] key = "pattern" -> "pattern_f1"
                           [] key = "anomaly" -> "anomaly_f1"
  IN  IF total_score > 0
      THEN [ key \in DOMAIN w |->
               IF metric_key(key) \in DOMAIN metrics
               THEN (metrics[metric_key(key)] * WDen) \div total_score
               ELSE w[key] ]
      ELSE w

-----------------------------------------------------------------------------
(* Layer 2: MLScanner *)

\* Shannon entropy of the buffer, in tenths of a bit
calculate_entropy(data) == IF data.len = 0 THEN 0 ELSE data.entropy

\* ens: whether a HybridThreatDetector is injected; w: its weights
MLScan(buf, ens, w) ==
  LET file_data == Bytes(buf)
      entropy == calculate_entropy(file_data)
  IN  IF ~ens
      THEN LET ml_risk == IF entropy < 10 /\ file_data.len > 100 THEN 30
                          ELSE IF entropy > 79 THEN 40
                          ELSE 0
           IN  [entropy |-> entropy,
                ml_risk_score |-> Points(ml_risk),
                confidence |-> FDen \div 2,
                layer |-> "Machine Learning (Baseline)"]
      ELSE LET result == predict(w, << [rf |-> buf.rf, pattern |-> buf.pattern,
                                        iso |-> file_data.iso] >>)
           IN  [entropy |-> entropy,
                ml_risk_score |-> result.final_score[1] * 100 * (Unit \div FDen),
                confidence |-> result.confidence[1],
                layer |-> "Machine Learning (Hybrid Ensemble)"]

-----------------------------------------------------------------------------
(* MalwareEngine *)

\* np.var(entropies) > 1.5, for ten entropies in tenths of a bit
VarianceAbove15(e) ==
  LET sum == SumSeq(e)
      sumsq == SumSeq([i \in 1 .. Len(e) |-> e[i] * e[i]])
  IN  Len(e) * sumsq - sum * sum > 15 * 10 * Len(e) * Len(e)

calculate_entropy_fragmentation(buf) ==
  LET data == Bytes(buf)
  IN  IF data.len < 1024 THEN [score |-> 0, signals |-> <<>>]
      ELSE LET entropies == data.chunks
               max_diff == MaxSeq(entropies) - MinSeq(entropies)
               acc == Accumulate(<<
                        [cond |-> VarianceAbove15(entropies),
                         threat |-> "Non-Uniform Entropy", add |-> 40],
                        [cond |-> max_diff > 30,
                         threat |-> "Extreme Entropy Divergence", add |-> 50] >>)
           IN  [score |-> Points(acc.risk_score), signals |-> acc.threats]

intent_keywords ==
  <<"malicious", "virus", "payload", "trojan", "stealth", "obfuscated", "bypass", "eicar">>

\* round(n / d, places) with Python's round-half-even, as a whole number of
\* 10^-places; scale = 10^places
Round(n, d, scale) ==
  LET q == (n * scale) \div d
      r == (n * scale) % d
  IN  IF 2 * r > d \/ (2 * r = d /\ q % 2 = 1) THEN q + 1 ELSE q

\* MaxImpact without the branch for a layer between 75 and 90
MaxImpact_No75(sig, ml, heu, frag) ==
  LET weighted_score == (35 * sig + 25 * ml + 25 * heu + 15 * frag) \div 100
      max_layer_impact == Max(sig, Max(ml, heu))
  IN  [weighted_score |-> weighted_score,
       max_layer_impact |-> max_layer_impact,
       final_risk_score |->
         IF max_layer_impact >= Points(90)
         THEN Max(weighted_score, (max_layer_impact * 95) \div 100)
         ELSE weighted_score]

\* MaxImpact taking the maximum over the signature and ML layers only
MaxImpact_SigMlOnly(sig, ml, heu, frag) ==
  LET weighted_score == (35 * sig + 25 * ml + 25 * heu + 15 * frag) \div 100
      max_layer_impact == Max(sig, ml)
  IN  [weighted_score |-> weighted_score,
       max_layer_impact |-> max_layer_impact,
       final_risk_score |->
         IF max_layer_impact >= Points(90)
         THEN Max(weighted_score, (max_layer_impact * 95) \div 100)
         ELSE IF max_layer_impact >= Points(75)
         THEN Max(weighted_score, Points(71))
         ELSE weighted_score]

\* the aggregation of scan_file, lines 55-75: weighted score and max-impact
MaxImpact(sig, ml, heu, frag) ==
  LET weighted_score == (35 * sig + 25 * ml + 25 * heu + 15 * frag) \div 100
      max_layer_impact == Max(sig, Max(ml, heu))
  IN  [weighted_score |-> weighted_score,
       max_layer_impact |-> max_layer_impact,
       final_risk_score |->
         IF max_layer_impact >= Points(90)
         THEN Max(weighted_score, (max_layer_impact * 95) \div 100)
         ELSE IF max_layer_impact >= Points(75)
         THEN Max(weighted_score, Points(71))
         ELSE weighted_score]

\* Classify with the SUSPICIOUS cut-off at 50 instead of 40
Classify_Cutoff50(final_risk_score, sig_risk) ==
  IF final_risk_score >= Points(70) \/ sig_risk = Points(100)
  THEN [classification |-> "MALICIOUS",
        severity |-> IF final_risk_score > Points(90) THEN "Critical" ELSE "High"]
  ELSE IF final_risk_score >= Points(50)
  THEN [classification |-> "SUSPICIOUS", severity |-> "Medium"]
  ELSE [classification |-> "CLEAN", severity |-> "Low"]

\* lines 113-124
Classify(final_risk_score, sig_risk) ==
  IF final_risk_score >= Points(70) \/ sig_risk = Points(100)
  THEN [classification |-> "MALICIOUS",
        severity |-> IF final_risk_score > Points(90) THEN "Critical" ELSE "High"]
  ELSE IF final_risk_score >= Points(40)
  THEN [classification |-> "SUSPICIOUS", severity |-> "Medium"]
  ELSE [classification |-> "CLEAN", severity |-> "Low"]

\* FilenameBonus that stops at the first keyword found
FilenameBonus_FirstMatch(filename) ==
  IF \E i \in 1 .. Len(intent_keywords) :
       Contains(filename_lowercase(filename), intent_keywords[i])
  THEN 40 ELSE 0

\* lines 94-102
FilenameBonus(filename) ==
  40 * Cardinality({ i \in 1 .. Len(intent_keywords) :
                       Contains(filename_lowercase(filename), intent_keywords[i]) })

\* line 102
FilenameBoost(final_risk_score, filename_bonus) ==
  Min(final_risk_score + Points(filename_bonus), Points(100))

\* BenignBias that only suppresses scores already below the SUSPICIOUS cut-off
BenignBias_OnlyLowScores(final_risk_score, is_standard_doc, total_content_hits, filename_bonus) ==
  IF /\ is_standard_doc /\ total_content_hits = 0 /\ filename_bonus = 0
     /\ final_risk_score < Points(40)
  THEN Min(final_risk_score, Points(10))
  ELSE final_risk_score

\* lines 106-110
BenignBias(final_risk_score, is_standard_doc, total_content_hits, filename_bonus) ==
  IF is_standard_doc /\ total_content_hits = 0 /\ filename_bonus = 0
  THEN Min(final_risk_score, Points(10))
  ELSE final_risk_score

\* lines 90-92: confidence is a percentage in 1/FDen
LowConfidence(final_risk_score, confidence) ==
  /\ final_risk_score > Points(40)
  /\ final_risk_score < Points(70)
  /\ confidence < 70 * FDen

\* scan_file computed from the three layer results; time: <<start, end>>
Aggregate(buf, filename, sig_result, ml_result, heu_result, frag_result, time) ==
  LET agg == MaxImpact(sig_result.risk_score, ml_result.ml_risk_score,
                       heu_result.risk_score, frag_result.score)
      expl1 == (IF sig_result.risk_score > 0 THEN <<"Signature Match">> ELSE <<>>)
               \o (IF ml_result.ml_risk_score > Points(60) THEN <<"Neural Anomaly">> ELSE <<>>)
               \o (IF heu_result.risk_score > 0 THEN <<"Heuristic Flag">> ELSE <<>>)
               \o (IF frag_result.score > Points(30)
                   THEN [i \in 1 .. Len(frag_result.signals) |-> "Entropy Warning"]
                   ELSE <<>>)
      confidence == ml_result.confidence * 100
      caveat == LowConfidence(agg.final_risk_score, confidence)
      expl2 == expl1 \o (IF caveat THEN <<"Low Confidence">> ELSE <<>>)
      name_lc == filename_lowercase(filename)
      filename_bonus == FilenameBonus(filename)
      preclamp == agg.final_risk_score + Points(filename_bonus)
      boosted == FilenameBoost(agg.final_risk_score, filename_bonus)
      is_standard_doc == endswith(name_lc, {".txt", ".md", ".log"})
      total_content_hits == (IF sig_result.risk_score > 0 THEN 1 ELSE 0)
                            + (IF heu_result.risk_score > 0 THEN 1 ELSE 0)
      benign == is_standard_doc /\ total_content_hits = 0 /\ filename_bonus = 0
      final_risk_score == BenignBias(boosted, is_standard_doc, total_content_hits,
                                     filename_bonus)
      expl3 == expl2 \o (IF benign THEN <<"Benign Bias">> ELSE <<>>)
      cls == Classify(final_risk_score, sig_result.risk_score)
      explanations ==
        expl3 \o (IF cls.classification = "CLEAN"
                     /\ ~(\E i \in 1 .. Len(expl3) : expl3[i] = "Benign Bias")
                  THEN <<"File appears benign">> ELSE <<>>)
  IN  [verdict |->
         [filename |-> filename,
          file_size_kb |-> Round(Bytes(buf).len, 1024, 100),
          sha256 |-> sig_result.sha256,
          detection |-> cls.classification,
          severity |-> cls.severity,
          risk_score |-> Round(final_risk_score, Unit, 10),
          confidence |-> Round(confidence, FDen, 10),
          scan_time_ms |-> (time[2] - time[1]) * 1000,
          timestamp |-> time[2],
          layers |-> [signature |-> sig_result, ml |-> ml_result,
                      heuristic |-> heu_result],
          all_threats |-> sig_result.threats \o heu_result.threats,
          risk_breakdown |-> explanations],
       locals |->
         [weighted_score |-> agg.weighted_score,
          max_layer_impact |-> agg.max_layer_impact,
          after_max_impact |-> agg.final_risk_score,
          frag_score |-> frag_result.score,
          filename_bonus |-> filename_bonus,
          preclamp |-> preclamp,
          confidence |-> confidence,
          benign |-> benign,
          final_risk_score |-> final_risk_score]]

\* MalwareEngine.scan_file(file_data, filename) on an engine whose ML layer has
\* ensemble ens with weights w
scan_file(buf, filename, ens, w, time) ==
  Aggregate(buf, filename,
            SignatureScan(buf, filename),
            MLScan(buf, ens, w),
            HeuristicScan(buf, filename),
            calculate_entropy_fragmentation(buf),
            time)

-----------------------------------------------------------------------------
(* The engine as a state machine: one caller, calls served one at a time *)

NoCall == [file_data |-> "none"]
NoVerdict == [detection |-> "none"]
NoLocals == [final_risk_score |-> -1]
NoPredictor == [model |-> "none"]
NoResult == [y_pred |-> "none"]

\* a stream that is not inside a predict call
NoStream == [pc |-> "idle"]

\* the history files: the default one, and one a store can be given instead
DefaultPath == "logs/malware_history.json"
Paths == {DefaultPath, "logs/other_history.json"}

\* no store built yet; no request in progress; no answer yet
NoPath == "none"
NoQuery == [op |-> "none"]
NoAnswer == [op |-> "none"]

\* malware_engine = None; no request answered yet
NoEngine == [engine |-> "None"]
NoResponse == [endpoint |-> "none"]

\* no tune_weights call and no detector predict call in progress
NoTune == [pc |-> "idle"]
NoRead == [pc |-> "idle"]

Threads == {"t1", "t2"}

\* Predictor instances: one of each stream's own, and one shared by all
Instances == Threads \cup {"shared"}

\* wall-clock readings <<start, end>> of one scan_file call
Times == { <<0, 0>>, <<0, 1>> }

Metrics == UNION { [K -> F1Values] : K \in SUBSET MetricKeys }

\* the tune_weights calls made on an engine's detector: perfect or zero F1
\* for the two classifiers, with or without a further metric in the mapping
EngineMetrics ==
  { m \in UNION { [K -> {0, PDen}] : K \in SUBSET MetricKeys } :
      "anomaly_f1" \notin DOMAIN m }

Init ==
  /\ ensemble \in BOOLEAN
  /\ weights = InitialWeights
  /\ pc = "idle"
  /\ call = NoCall
  /\ verdict = NoVerdict
  /\ locals = NoLocals
  /\ tpc = [t \in Threads |-> "idle"]
  /\ tcall = [t \in Threads |-> NoCall]
  /\ tlayers = [t \in Threads |-> NoCall]
  /\ tverdict = [t \in Threads |-> NoVerdict]
  /\ seen = {}
  /\ predictor = NoPredictor
  /\ score_history = <<>>
  /\ presult = NoResult
  /\ pstream = <<>>
  /\ ecall = <<>>
  /\ eresult = NoResult
  /\ swindow = 0
  /\ per_stream = FALSE
  /\ histories = [inst \in Instances |-> <<>>]
  /\ streams = [t \in Threads |-> NoStream]
  /\ base = <<>>
  /\ rounds = 0
  /\ discipline = "none"
  /\ lock = "free"
  /\ tuner = NoTune
  /\ reader = NoRead
  /\ history_file = NoPath
  /\ files = [p \in Paths |-> <<>>]
  /\ log = <<>>
  /\ query = NoQuery
  /\ answer = NoAnswer
  /\ malware_engine = NoEngine
  /\ api_history = <<>>
  /\ response = NoResponse
  /\ scans = <<>>

\* result = malware_engine.scan_file(file, filename)
ScanFile ==
  /\ pc = "idle"
  /\ \E buf \in Buffers, filename \in Filenames, time \in Times :
       \E result \in { scan_file(buf, filename, ensemble, weights, time) } :
         /\ verdict' = result.verdict
         /\ locals' = result.locals
         /\ call' = [file_data |-> buf, filename |-> filename]
  /\ pc' = "returned"
  /\ UNCHANGED <<ensemble, weights>>
  /\ UNCHANGED threadVars
  /\ UNCHANGED <<predictorVars, detectorVars>>
  /\ UNCHANGED laterVars

\* the caller takes the verdict; the engine keeps nothing of the call
Return ==
  /\ pc = "returned"
  /\ pc' = "idle"
  /\ call' = NoCall
  /\ verdict' = NoVerdict
  /\ locals' = NoLocals
  /\ UNCHANGED <<ensemble, weights>>
  /\ UNCHANGED threadVars
  /\ UNCHANGED <<predictorVars, detectorVars>>
  /\ UNCHANGED laterVars

\* detector.tune_weights(metrics), between scans
TuneWeights ==
  /\ ensemble
  /\ pc = "idle"
  /\ \E metrics \in EngineMetrics : weights' = tune_weights(weights, metrics)
  /\ UNCHANGED <<ensemble, pc, call, verdict, locals>>
  /\ UNCHANGED threadVars
  /\ UNCHANGED <<predictorVars, detectorVars>>
  /\ UNCHANGED laterVars

Next ==
  \/ ScanFile
  \/ Return
  \/ TuneWeights

Spec == Init /\ [][Next]_vars

-----------------------------------------------------------------------------
(* Concurrent callers: scan_file calls of several threads on one engine,   *)
(* interleaved between the layer scans and the aggregation.                *)

ConcBuffers ==
  { [content |-> "zeros2048", rf |-> PDen, pattern |-> PDen],
    [content |-> "script", rf |-> 1, pattern |-> 0] }

ConcFilenames ==
  { [stem |-> {"payload"}, ext |-> ".bin"],
    [stem |-> {"report"}, ext |-> ".txt"] }

\* the fields of a verdict that do not come from the clock
WithoutTime(v) == [v EXCEPT !.scan_time_ms = 0, !.timestamp = 0]

\* thread t enters scan_file(file_data, filename)
Call(t) ==
  /\ tpc[t] = "idle"
  /\ \E buf \in ConcBuffers, filename \in ConcFilenames :
       tcall' = [tcall EXCEPT ![t] = [file_data |-> buf, filename |-> filename]]
  /\ tpc' = [tpc EXCEPT ![t] = "layers"]
  /\ UNCHANGED <<ensemble, weights, tlayers, tverdict, seen>>
  /\ UNCHANGED engineVars
  /\ UNCHANGED <<predictorVars, detectorVars>>
  /\ UNCHANGED laterVars

\* RunLayers with an online weight adaptation after the ensemble prediction
RunLayers_OnlineTune(t) ==
  /\ tpc[t] = "layers"
  /\ tlayers' = [tlayers EXCEPT ![t] =
       [sig_result |-> SignatureScan(tcall[t].file_data, tcall[t].filename),
        ml_result |-> MLScan(tcall[t].file_data, ensemble, weights),
        heu_result |-> HeuristicScan(tcall[t].file_data, tcall[t].filename),
        frag_result |-> calculate_entropy_fragmentation(tcall[t].file_data)]]
  /\ weights' = IF ensemble
                THEN tune_weights(weights,
                       [k \in {"rf_f1", "pattern_f1"} |->
                          IF k = "rf_f1" THEN tcall[t].file_data.rf
                          ELSE tcall[t].file_data.pattern])
                ELSE weights
  /\ tpc' = [tpc EXCEPT ![t] = "aggregate"]
  /\ UNCHANGED <<ensemble, tcall, tverdict, seen>>
  /\ UNCHANGED engineVars
  /\ UNCHANGED <<predictorVars, detectorVars>>
  /\ UNCHANGED laterVars

\* lines 45-53: the three layers and the fragmentation analysis
RunLayers(t) ==
  /\ tpc[t] = "layers"
  /\ tlayers' = [tlayers EXCEPT ![t] =
       [sig_result |-> SignatureScan(tcall[t].file_data, tcall[t].filename),
        ml_result |-> MLScan(tcall[t].file_data, ensemble, weights),
        heu_result |-> HeuristicScan(tcall[t].file_data, tcall[t].filename),
        frag_result |-> calculate_entropy_fragmentation(tcall[t].file_data)]]
  /\ tpc' = [tpc EXCEPT ![t] = "aggregate"]
  /\ UNCHANGED <<ensemble, weights, tcall, tverdict, seen>>
  /\ UNCHANGED engineVars
  /\ UNCHANGED <<predictorVars, detectorVars>>
  /\ UNCHANGED laterVars

\* lines 55-145: aggregation, classification and return; seen records every
\* verdict returned so far with the arguments of its call
Finish(t) ==
  /\ tpc[t] = "aggregate"
  /\ \E time \in Times :
       \E result \in { Aggregate(tcall[t].file_data, tcall[t].filename,
                                 tlayers[t].sig_result, tlayers[t].ml_result,
                                 tlayers[t].heu_result, tlayers[t].frag_result,
                                 time) } :
         /\ tverdict' = [tverdict EXCEPT ![t] = result.verdict]
         /\ seen' = seen \cup { [call |-> tcall[t],
                                 verdict |-> WithoutTime(result.verdict)] }
  /\ tpc' = [tpc EXCEPT ![t] = "returned"]
  /\ UNCHANGED <<ensemble, weights, tcall, tlayers>>
  /\ UNCHANGED engineVars
  /\ UNCHANGED <<predictorVars, detectorVars>>
  /\ UNCHANGED laterVars

\* the caller of thread t takes the verdict
TReturn(t) ==
  /\ tpc[t] = "returned"
  /\ tpc' = [tpc EXCEPT ![t] = "idle"]
  /\ tcall' = [tcall EXCEPT ![t] = NoCall]
  /\ tlayers' = [tlayers EXCEPT ![t] = NoCall]
  /\ tverdict' = [tverdict EXCEPT ![t] = NoVerdict]
  /\ UNCHANGED <<ensemble, weights, seen>>
  /\ UNCHANGED engineVars
  /\ UNCHANGED <<predictorVars, detectorVars>>
  /\ UNCHANGED laterVars

\* the detector is tuned before the engine serves its first call
TuneOffline ==
  /\ seen = {}
  /\ \A t \in Threads : tpc[t] = "idle"
  /\ TuneWeights

NextConc ==
  \/ TuneOffline
  \/ \E t \in Threads : Call(t)
  \/ \E t \in Threads : RunLayers(t)
  \/ \E t \in Threads : Finish(t)
  \/ \E t \in Threads : TReturn(t)

SpecConc == Init /\ [][NextConc]_vars

-----------------------------------------------------------------------------
(* Predictor: confidence, per-class thresholding, smoothing, severity.     *)
(* Confidences and probabilities are in 1/CDen; every value the model      *)
(* gives is a whole number of hundredths, so means of up to six values     *)
(* are exact.                                                              *)

\* largest smoothing_window a Predictor is built with
MaxWindow == 2
\* largest number of rows in one predict call
MaxBatch == 2
\* largest number of rows one Predictor instance scores
MaxRows == 3

CDen == 100 * 60
Tenths(n) == n * (CDen \div 10)
Hundredths(n) == n * (CDen \div 100)

\* Python's None, where a sequence is expected otherwise
NoneValue == <<>>

\* the models a Predictor wraps: the capabilities they expose beside
\* predict, the labels predict returns, and classes_ (or None)
Capabilities == { {"predict_proba"}, {"decision_function"},
                  {"predict_proba", "decision_function"}, {} }
LabelLists == { <<"Normal", "dos">>, <<"dos", "probe">> }
Models ==
  UNION { { [caps |-> c, labels |-> l, classes_ |-> k] :
              c \in Capabilities, k \in {l, NoneValue} } : l \in LabelLists }

\* the rows of a feature matrix, described by what the model answers on
\* them: the index of the predicted label, the probability of the first
\* class (the second class has the rest), and the decision score
Rows ==
  { [pred |-> i, p1 |-> Tenths(q), score |-> 5 - q] : i \in 1 .. 2, q \in {1, 4, 9} }

RowBatches == UNION { [1 .. n -> Rows] : n \in 1 .. MaxBatch }

\* per_class_thresholds, as a function from labels to minimum probabilities
ThresholdMaps ==
  { [l \in {} |-> 0], [l \in {"dos"} |-> Tenths(7)],
    [l \in {"Normal", "dos"} |-> Tenths(7)] }

\* Predictor.__init__
NewPredictorState(model, per_class_thresholds, smoothing_window) ==
  [model |-> model,
   confidence_threshold |-> Tenths(7),
   normal_class_names |-> { lower(x) : x \in {"normal", "benign"} },
   per_class_thresholds |-> per_class_thresholds,
   smoothing_window |-> smoothing_window,
   maxlen |-> Max(smoothing_window, 1)]

\* variant: the labels predict can return stand in for a missing classes_
_get_classes_FromLabels(self) == self.model.labels

_get_classes(self) == self.model.classes_

\* variant: predict_proba is never found
_predict_proba_Absent(self, X) == NoneValue

\* model.predict_proba(X), or None
_predict_proba(self, X) ==
  IF "predict_proba" \in self.model.caps
  THEN [i \in 1 .. Len(X) |-> <<X[i].p1, CDen - X[i].p1>>]
  ELSE NoneValue

\* model.decision_function(X) (one score per row), or None
_decision_scores(self, X) ==
  IF "decision_function" \in self.model.caps
  THEN [i \in 1 .. Len(X) |-> X[i].score]
  ELSE NoneValue

\* 1 / (1 + exp(-score)), to the nearest hundredth
Logistic(score) ==
  CASE score <= -5 -> Hundredths(1)
    [] score = -4 -> Hundredths(2)
    [] score = -3 -> Hundredths(5)
    [] score = -2 -> Hundredths(12)
    [] score = -1 -> Hundredths(27)
    [] score = 0 -> Hundredths(50)
    [] score = 1 -> Hundredths(73)
    [] score = 2 -> Hundredths(88)
    [] score = 3 -> Hundredths(95)
    [] score = 4 -> Hundredths(98)
    [] score >= 5 -> Hundredths(99)

_fallback_confidence(scores_1d) ==
  [i \in 1 .. Len(scores_1d) |-> Logistic(scores_1d[i])]

_is_normal_label(self, label) == lower(label) \in self.normal_class_names

\* the least index of classes_list whose entry is in wanted, or 0
FirstIndex(classes_list, wanted) ==
  IF \E i \in 1 .. Len(classes_list) : classes_list[i] \in wanted
  THEN CHOOSE i \in 1 .. Len(classes_list) :
         /\ classes_list[i] \in wanted
         /\ \A j \in 1 .. i - 1 : classes_list[j] \notin wanted
  ELSE 0

\* the entries of classes_list that _is_normal_label accepts
NormalLabels(self, classes_list) ==
  { classes_list[i] : i \in { j \in 1 .. Len(classes_list) :
                                _is_normal_label(self, classes_list[j]) } }

\* variant: a downgrade that rewrites the label and keeps the confidence
_apply_per_class_thresholding_KeepConf(self, classes, y_pred, conf, proba) ==
  LET normal_idx == FirstIndex(classes, NormalLabels(self, classes))
  IN  [y |-> [i \in 1 .. Len(y_pred) |->
                IF /\ proba # NoneValue
                   /\ classes # NoneValue
                   /\ normal_idx # 0
                   /\ y_pred[i] \in DOMAIN self.per_class_thresholds
                   /\ Max(proba[i][1], proba[i][2]) < self.per_class_thresholds[y_pred[i]]
                THEN classes[normal_idx] ELSE y_pred[i]],
       conf |-> conf]

_apply_per_class_thresholding(self, classes, y_pred, conf, proba) ==
  LET unchanged == [y |-> y_pred, conf |-> conf]
  IN  IF DOMAIN self.per_class_thresholds = {} THEN unchanged
      ELSE IF proba = NoneValue \/ classes = NoneValue THEN unchanged
      ELSE LET normal_idx == FirstIndex(classes, NormalLabels(self, classes))
               Downgrade(i) ==
                 LET pred_idx == FirstIndex(classes, {y_pred[i]})
                 IN  /\ pred_idx # 0
                     /\ y_pred[i] \in DOMAIN self.per_class_thresholds
                     /\ proba[i][pred_idx] < self.per_class_thresholds[y_pred[i]]
           IN  IF normal_idx = 0 THEN unchanged
               ELSE [y |-> [i \in 1 .. Len(y_pred) |->
                              IF Downgrade(i) THEN classes[normal_idx] ELSE y_pred[i]],
                     conf |-> [i \in 1 .. Len(y_pred) |->
                                 IF Downgrade(i) THEN proba[i][normal_idx] ELSE conf[i]]]

\* variant: a history that never evicts
DequeAppend_Unbounded(history, val, maxlen) == Append(history, val)

\* deque(maxlen).append
DequeAppend(history, val, maxlen) ==
  IF Len(history) < maxlen THEN Append(history, val)
  ELSE Append(Tail(history), val)

Mean(history) == SumSeq(history) \div Len(history)

\* the history after the first n values of conf have been appended
RECURSIVE HistoryAfter(_, _, _, _)
HistoryAfter(history, conf, n, maxlen) ==
  IF n = 0 THEN history
  ELSE DequeAppend(HistoryAfter(history, conf, n - 1, maxlen), conf[n], maxlen)

\* variant: every row gets the mean of its batch whatever the window
_apply_smoothing_BatchMean(self, history, conf) ==
  [conf |-> [i \in 1 .. Len(conf) |-> Mean(conf)], history |-> history]

\* variant: the history is recorded even when smoothing is off
_apply_smoothing_AlwaysRecord(self, history, conf) ==
  [conf |-> IF self.smoothing_window <= 1 THEN conf
            ELSE [i \in 1 .. Len(conf) |->
                    Mean(HistoryAfter(history, conf, i, self.maxlen))],
   history |-> HistoryAfter(history, conf, Len(conf), self.maxlen)]

\* the smoothed confidences and the history left behind
_apply_smoothing(self, history, conf) ==
  IF self.smoothing_window <= 1
  THEN [conf |-> conf, history |-> history]
  ELSE [conf |-> [i \in 1 .. Len(conf) |->
                    Mean(HistoryAfter(history, conf, i, self.maxlen))],
        history |-> HistoryAfter(history, conf, Len(conf), self.maxlen)]

\* variant: the normal class is recognised by confidence bands only
_severity_BandsOnly(self, y_pred, confidence) ==
  [i \in 1 .. Len(y_pred) |->
     IF confidence[i] >= Tenths(9) THEN "High"
     ELSE IF confidence[i] >= Tenths(7) THEN "Medium"
     ELSE "Low"]

_severity(self, y_pred, confidence) ==
  [i \in 1 .. Len(y_pred) |->
     IF _is_normal_label(self, y_pred[i]) THEN "Low"
     ELSE IF confidence[i] >= Tenths(9) THEN "High"
     ELSE IF confidence[i] >= Tenths(7) THEN "Medium"
     ELSE "Low"]

\* Predictor.predict(X) with smoothing history `history`: the
\* PredictionResult, the values of the intermediate steps, and the history
\* left behind
Predictor_predict(self, history, X) ==
  LET n == Len(X)
      proba == _predict_proba(self, X)
      classes == _get_classes(self)
      y_pred == [i \in 1 .. n |-> self.model.labels[X[i].pred]]
      scores == _decision_scores(self, X)
      conf == IF proba # NoneValue
              THEN [i \in 1 .. n |-> Max(proba[i][1], proba[i][2])]
              ELSE IF scores = NoneValue
              THEN [i \in 1 .. n |-> CDen]
              ELSE _fallback_confidence(scores)
      adj == _apply_per_class_thresholding(self, classes, y_pred, conf, proba)
      smoothed == _apply_smoothing(self, history, adj.conf)
  IN  [y_pred |-> adj.y,
       confidence |-> smoothed.conf,
       severity |-> _severity(self, adj.y, smoothed.conf),
       low_confidence |-> [i \in 1 .. n |-> smoothed.conf[i] < self.confidence_threshold],
       proba |-> proba,
       X |-> X,
       raw_y |-> y_pred,
       raw_conf |-> conf,
       adj_conf |-> adj.conf,
       history |-> smoothed.history]

\* predictor = Predictor(model, per_class_thresholds=..., smoothing_window=...)
NewPredictor ==
  /\ predictor = NoPredictor
  /\ \E model \in Models, thr \in ThresholdMaps, window \in 0 .. MaxWindow :
       predictor' = NewPredictorState(model, thr, window)
  /\ score_history' = <<>>
  /\ UNCHANGED <<presult, pstream>>
  /\ UNCHANGED <<ensemble, weights, engineVars, threadVars, detectorVars>>
  /\ UNCHANGED laterVars

\* result = predictor.predict(X); pstream keeps the post-thresholding
\* confidence of every row the instance has scored
Predict ==
  /\ predictor # NoPredictor
  /\ \E X \in RowBatches :
       /\ Len(pstream) + Len(X) <= MaxRows
       /\ \E result \in { Predictor_predict(predictor, score_history, X) } :
            /\ presult' = result
            /\ score_history' = result.history
            /\ pstream' = pstream \o result.adj_conf
  /\ UNCHANGED predictor
  /\ UNCHANGED <<ensemble, weights, engineVars, threadVars, detectorVars>>
  /\ UNCHANGED laterVars

NextPred ==
  \/ NewPredictor
  \/ Predict

SpecPred == Init /\ [][NextPred]_vars

-----------------------------------------------------------------------------
(* The detector on its own: tune_weights with any metrics mapping, predict  *)
(* on batches of samples.                                                   *)

\* largest number of samples in one HybridThreatDetector.predict call
MaxSamples == 2

\* samples, described by what the three sub-models answer on them
Samples ==
  { [rf |-> PDen, pattern |-> PDen, iso |-> 0],
    [rf |-> PDen, pattern |-> 0, iso |-> 1],
    [rf |-> 0, pattern |-> PDen, iso |-> 0],
    [rf |-> PDen \div 2, pattern |-> 0, iso |-> 0],
    [rf |-> PDen \div 2, pattern |-> PDen, iso |-> 1],
    [rf |-> 0, pattern |-> 0, iso |-> 1] }

SampleBatches == UNION { [1 .. n -> Samples] : n \in 1 .. MaxSamples }

\* detector.tune_weights(metrics), between two predict calls
DetectorTune ==
  /\ eresult = NoResult
  /\ \E metrics \in Metrics : weights' = tune_weights(weights, metrics)
  /\ UNCHANGED <<ensemble, engineVars, threadVars, predictorVars, detectorVars>>
  /\ UNCHANGED laterVars

\* result = detector.predict(X)
DetectorPredict ==
  /\ eresult = NoResult
  /\ \E X \in SampleBatches :
       /\ ecall' = X
       /\ eresult' = predict(weights, X)
  /\ UNCHANGED <<ensemble, weights, engineVars, threadVars, predictorVars>>
  /\ UNCHANGED laterVars

\* the caller drops the result
DetectorReturn ==
  /\ eresult # NoResult
  /\ ecall' = <<>>
  /\ eresult' = NoResult
  /\ UNCHANGED <<ensemble, weights, engineVars, threadVars, predictorVars>>
  /\ UNCHANGED laterVars

NextEns ==
  \/ DetectorTune
  \/ DetectorPredict
  \/ DetectorReturn

SpecEns == Init /\ [][NextEns]_vars

-----------------------------------------------------------------------------
(* The engine and the Predictor side by side.  They share no variable, so   *)
(* a behaviour of the two is an interleaving of a behaviour of each and     *)
(* the steps of one commute with the steps of the other; the interleavings  *)
(* explored are those in which one of the two has not started.              *)

EngineFresh ==
  /\ weights = InitialWeights
  /\ pc = "idle"
  /\ call = NoCall
  /\ verdict = NoVerdict
  /\ locals = NoLocals

NextBoth ==
  \/ predictor = NoPredictor /\ Next
  \/ EngineFresh /\ NextPred

SpecBoth == Init /\ [][NextBoth]_vars

-----------------------------------------------------------------------------
(* Streams calling Predictor.predict concurrently.  The steps of           *)
(* _apply_smoothing are interleaved: each row is appended to the           *)
(* instance's history in one step and the mean of the history is taken in  *)
(* another.                                                                *)

\* largest number of rounds of calls the streams make
MaxRounds == 2

\* the Predictor every instance is: a model with decision_function only,
\* no thresholds
StreamPredictor(smoothing_window) ==
  NewPredictorState([caps |-> {"decision_function"},
                     labels |-> <<"dos", "probe">>,
                     classes_ |-> <<"dos", "probe">>],
                    [l \in {} |-> 0], smoothing_window)

\* the rows the streams score: decision scores 4 and -4
StreamBatches ==
  { X \in RowBatches :
      \A i \in 1 .. Len(X) : X[i].pred = 1 /\ X[i].score \in {4, -4} }

\* variant: every stream is served by the one shared instance
InstanceOf_AlwaysShared(t, own) == "shared"

\* the instance stream t calls: its own, or the shared one
InstanceOf(t, own) == IF own THEN t ELSE "shared"

InFlight(t) == streams[t].pc \in {"append", "mean"}

\* the instances are built, all with the same smoothing_window > 1, and the
\* streams are given one instance each or the shared one
NewStreamPredictors ==
  /\ swindow = 0
  /\ \E window \in 2 .. MaxWindow : swindow' = window
  /\ \E own \in BOOLEAN : per_stream' = own
  /\ UNCHANGED <<histories, streams, base, rounds>>
  /\ UNCHANGED <<ensemble, weights, engineVars, threadVars, predictorVars, detectorVars>>
  /\ UNCHANGED <<raceVars, storeVars, apiVars>>

\* stream t enters predict(X): lines 159-174 run on the call's own data and
\* leave the confidences to smooth; base keeps the history the shared
\* instance had when the first of the calls now in flight entered
StreamCall(t) ==
  /\ swindow > 1
  /\ rounds < MaxRounds
  /\ streams[t].pc = "idle"
  /\ \E X \in StreamBatches :
       LET inst == InstanceOf(t, per_stream)
           self == StreamPredictor(swindow)
       IN  /\ streams' = [streams EXCEPT ![t] =
                 [pc |-> "append", own |-> per_stream, inst |-> inst,
                  conf |-> Predictor_predict(self, <<>>, X).adj_conf,
                  i |-> 1, out |-> <<>>,
                  start |-> histories[inst], overlapped |-> FALSE]]
           /\ base' = IF inst = "shared"
                         /\ ~\E u \in Threads \ {t} :
                              InFlight(u) /\ streams[u].inst = "shared"
                      THEN histories["shared"] ELSE base
  /\ UNCHANGED <<swindow, per_stream, histories, rounds>>
  /\ UNCHANGED <<ensemble, weights, engineVars, threadVars, predictorVars, detectorVars>>
  /\ UNCHANGED <<raceVars, storeVars, apiVars>>

\* line 130: self._score_history.append(float(val))
StreamAppend(t) ==
  /\ streams[t].pc = "append"
  /\ LET me == streams[t]
     IN  /\ histories' = [histories EXCEPT ![me.inst] =
               DequeAppend(histories[me.inst], me.conf[me.i], swindow)]
         /\ streams' = [u \in Threads |->
               IF u = t THEN [me EXCEPT !.pc = "mean"]
               ELSE IF InFlight(u) /\ streams[u].inst = me.inst
               THEN [streams[u] EXCEPT !.overlapped = TRUE]
               ELSE streams[u]]
  /\ UNCHANGED <<swindow, per_stream, base, rounds>>
  /\ UNCHANGED <<ensemble, weights, engineVars, threadVars, predictorVars, detectorVars>>
  /\ UNCHANGED <<raceVars, storeVars, apiVars>>

\* line 131: smoothed[i] = float(np.mean(self._score_history)), and the
\* loop's next iteration or the return
StreamMean(t) ==
  /\ streams[t].pc = "mean"
  /\ LET me == streams[t]
     IN  streams' = [streams EXCEPT ![t] =
           [me EXCEPT !.out = Append(me.out, Mean(histories[me.inst])),
                      !.i = me.i + 1,
                      !.pc = IF me.i < Len(me.conf) THEN "append" ELSE "returned"]]
  /\ UNCHANGED <<swindow, per_stream, histories, base, rounds>>
  /\ UNCHANGED <<ensemble, weights, engineVars, threadVars, predictorVars, detectorVars>>
  /\ UNCHANGED <<raceVars, storeVars, apiVars>>

\* the callers take their results; the next round of calls may start
StreamJoin ==
  /\ \E t \in Threads : streams[t].pc = "returned"
  /\ \A t \in Threads : ~InFlight(t)
  /\ streams' = [t \in Threads |-> NoStream]
  /\ rounds' = rounds + 1
  /\ UNCHANGED <<swindow, per_stream, histories, base>>
  /\ UNCHANGED <<ensemble, weights, engineVars, threadVars, predictorVars, detectorVars>>
  /\ UNCHANGED <<raceVars, storeVars, apiVars>>

NextStreams ==
  \/ NewStreamPredictors
  \/ \E t \in Threads : StreamCall(t)
  \/ \E t \in Threads : StreamAppend(t)
  \/ \E t \in Threads : StreamMean(t)
  \/ StreamJoin

SpecStreams == Init /\ [][NextStreams]_vars

-----------------------------------------------------------------------------
(* tune_weights concurrent with predict on one HybridThreatDetector.  Each  *)
(* subscript self.weights[key], read or written, is one step.  Callers that *)
(* serialize take a lock around each call; the detector itself has none.    *)

\* the order of self.weights.keys()
WeightKeys == <<"rf", "pattern", "anomaly">>

\* the metrics the tuner passes: all three F1 scores, not all zero
RaceMetrics ==
  { m \in [{"rf_f1", "pattern_f1", "anomaly_f1"} -> {0, PDen}] : SumValues(m) > 0 }

\* variant: the cnn contribution is computed from the rf weight
WeightRead_CnnFromRf(n) == IF n = 5 THEN "rf" ELSE WeightKeys[((n - 1) % 3) + 1]

\* the key of the n-th subscript of self.weights in predict: lines 37-39,
\* then lines 48-50
WeightRead(n) == WeightKeys[((n - 1) % 3) + 1]

NumReads == 2 * Len(WeightKeys)

MayEnter == discipline = "locked" => lock = "free"

\* the callers agree to serialize, or not to
RaceSetup ==
  /\ discipline = "none"
  /\ \E d \in {"locked", "unlocked"} : discipline' = d
  /\ UNCHANGED <<lock, tuner, reader>>
  /\ UNCHANGED <<ensemble, weights, engineVars, threadVars, predictorVars, detectorVars>>
  /\ UNCHANGED <<streamVars, storeVars, apiVars>>

\* line 55: tune_weights(metrics) is entered and total_score is computed
TuneBegin ==
  /\ discipline # "none"
  /\ tuner.pc = "idle"
  /\ MayEnter
  /\ \E metrics \in RaceMetrics :
       tuner' = [pc |-> "writing", metrics |-> metrics, keys |-> WeightKeys,
                 old |-> weights, new |-> tune_weights(weights, metrics)]
  /\ lock' = IF discipline = "locked" THEN "tune" ELSE lock
  /\ UNCHANGED <<discipline, reader>>
  /\ UNCHANGED <<ensemble, weights, engineVars, threadVars, predictorVars, detectorVars>>
  /\ UNCHANGED <<streamVars, storeVars, apiVars>>

\* line 60: self.weights[key] = metrics[metric_key] / total_score, for the
\* next key; after the last key the call returns
TuneWrite ==
  /\ tuner.pc = "writing"
  /\ LET key == Head(tuner.keys)
         last == Len(tuner.keys) = 1
     IN  /\ weights' = [weights EXCEPT
                          ![key] = tune_weights(weights, tuner.metrics)[key]]
         /\ tuner' = IF last THEN [tuner EXCEPT !.pc = "done", !.keys = <<>>]
                     ELSE [tuner EXCEPT !.keys = Tail(tuner.keys)]
         /\ lock' = IF last /\ discipline = "locked" THEN "free" ELSE lock
  /\ reader' = IF reader.pc = "reading" THEN [reader EXCEPT !.raced = TRUE]
               ELSE reader
  /\ UNCHANGED discipline
  /\ UNCHANGED <<ensemble, engineVars, threadVars, predictorVars, detectorVars>>
  /\ UNCHANGED <<streamVars, storeVars, apiVars>>

\* lines 27-33: predict(X) is entered and the sub-models are evaluated
PredictBegin ==
  /\ discipline # "none"
  /\ reader.pc = "idle"
  /\ MayEnter
  /\ \E X \in SampleBatches :
       reader' = [pc |-> "reading", X |-> X, reads |-> <<>>, raced |-> FALSE,
                  result |-> NoResult]
  /\ lock' = IF discipline = "locked" THEN "predict" ELSE lock
  /\ UNCHANGED <<discipline, tuner>>
  /\ UNCHANGED <<ensemble, weights, engineVars, threadVars, predictorVars, detectorVars>>
  /\ UNCHANGED <<streamVars, storeVars, apiVars>>

\* the weights the reads so far have seen, as two weight vectors
ReadVector(reads, first) ==
  [k \in {"rf", "pattern", "anomaly"} |->
     reads[first + (CHOOSE j \in 0 .. 2 : WeightKeys[j + 1] = k)]]

\* the dictionary predict returns when its six subscripts saw `reads`
RacedResult(reads, X) ==
  LET scores == predict(ReadVector(reads, 1), X)
      shares == predict(ReadVector(reads, 4), X)
  IN  [scores EXCEPT !.rf_contribution = shares.rf_contribution,
                     !.cnn_contribution = shares.cnn_contribution,
                     !.ae_contribution = shares.ae_contribution]

\* one subscript self.weights[key] of lines 37-39 and 48-50; after the
\* last one the dictionary is returned
PredictRead ==
  /\ reader.pc = "reading"
  /\ LET reads == Append(reader.reads, weights[WeightRead(Len(reader.reads) + 1)])
     IN  IF Len(reads) < NumReads
         THEN /\ reader' = [reader EXCEPT !.reads = reads]
              /\ UNCHANGED lock
         ELSE /\ reader' = [reader EXCEPT !.reads = reads, !.pc = "returned",
                                          !.result = RacedResult(reads, reader.X)]
              /\ lock' = IF discipline = "locked" THEN "free" ELSE lock
  /\ UNCHANGED <<discipline, tuner>>
  /\ UNCHANGED <<ensemble, weights, engineVars, threadVars, predictorVars, detectorVars>>
  /\ UNCHANGED <<streamVars, storeVars, apiVars>>

\* both callers have their answers; the next calls may start
RaceJoin ==
  /\ reader.pc = "returned"
  /\ tuner.pc \in {"idle", "done"}
  /\ reader' = NoRead
  /\ tuner' = NoTune
  /\ UNCHANGED <<discipline, lock>>
  /\ UNCHANGED <<ensemble, weights, engineVars, threadVars, predictorVars, detectorVars>>
  /\ UNCHANGED <<streamVars, storeVars, apiVars>>

NextRace ==
  \/ RaceSetup
  \/ TuneBegin
  \/ TuneWrite
  \/ PredictBegin
  \/ PredictRead
  \/ RaceJoin

SpecRace == Init /\ [][NextRace]_vars

-----------------------------------------------------------------------------
(* HistoryManager and ThreatCorrelator over one history file.  A missing    *)
(* file and a file holding [] answer every read alike and are not told      *)
(* apart.  Records keep the fields the two classes read: risk scores are    *)
(* in tenths of a point and entropies in hundredths of a bit.               *)

\* HistoryManager.max_records
MaxRecords == 6

\* the number of matches find_similar_threats returns at most
TopMatches == 5

NoId == "None"

\* scan records as the scan endpoint stores them: one payload scanned
\* twice, and a suspicious file close to it in entropy and risk
Records ==
  { [id |-> "a", sha256 |-> "h1", detection |-> "MALICIOUS",
     entropy |-> 750, risk_score |-> 720],
    [id |-> "b", sha256 |-> "h1", detection |-> "MALICIOUS",
     entropy |-> 750, risk_score |-> 720],
    [id |-> "c", sha256 |-> "h2", detection |-> "SUSPICIOUS",
     entropy |-> 754, risk_score |-> 680] }

\* the scans find_correlations is asked about: stored scans, a scan that
\* has no id yet, and scans exactly 0.05 bit or exactly 5 points away from
\* records a and b
CurrentScans ==
  Records
    \cup { [id |-> NoId, sha256 |-> "h1", detection |-> "MALICIOUS",
            entropy |-> 750, risk_score |-> 720],
           [id |-> "e", sha256 |-> "h4", detection |-> "MALICIOUS",
            entropy |-> 755, risk_score |-> 721],
           [id |-> "f", sha256 |-> "h5", detection |-> "MALICIOUS",
            entropy |-> 751, risk_score |-> 770] }

\* the limits get_history is called with
Limits == -1 .. MaxRecords + 1

\* Python's data[:n]
SliceTo(data, n) ==
  IF n >= 0 THEN SubSeq(data, 1, Min(n, Len(data)))
  ELSE SubSeq(data, 1, Max(Len(data) + n, 0))

\* variant: the new record goes to the end of the list
add_record_Append(data, record) == SliceTo(Append(data, record), MaxRecords)

\* the list HistoryManager.add_record(record) writes back
add_record(data, record) == SliceTo(<<record>> \o data, MaxRecords)

\* variant: the limit is taken from the end of the list
get_history_Tail(data, limit) ==
  SubSeq(data, Max(Len(data) - limit, 0) + 1, Len(data))

\* HistoryManager.get_history(limit)
get_history(data, limit) == SliceTo(data, limit)

\* the least index of history whose record is in wanted, or 0
FirstRecord(history, wanted) ==
  IF \E i \in 1 .. Len(history) : history[i] \in wanted
  THEN CHOOSE i \in 1 .. Len(history) :
         /\ history[i] \in wanted
         /\ \A j \in 1 .. i - 1 : history[j] \notin wanted
  ELSE 0

RecurrentHash == [signal |-> "Recurrent Hash", id |-> ""]
HeuristicVariant(id) == [signal |-> "Heuristic Variant", id |-> id]

\* variant: the current scan's own record counts as a recurrence
IsRecurrence_AnyId(record, current_scan) == record.sha256 = current_scan.sha256

\* line 26
IsRecurrence(record, current_scan) ==
  record.sha256 = current_scan.sha256 /\ record.id # current_scan.id

\* variant: every stored record is a candidate, malicious or not
IsVariant_AnyDetection(record, current_scan) ==
  /\ Abs(record.entropy - current_scan.entropy) < 5
  /\ Abs(record.risk_score - current_scan.risk_score) < 50
  /\ record.sha256 # current_scan.sha256

\* lines 31 and 35-38
IsVariant(record, current_scan) ==
  /\ record.detection = "MALICIOUS"
  /\ Abs(record.entropy - current_scan.entropy) < 5
  /\ Abs(record.risk_score - current_scan.risk_score) < 50
  /\ record.sha256 # current_scan.sha256

Range(seq) == { seq[i] : i \in 1 .. Len(seq) }

\* the lists list(set(...)) can return: the members in any order
ListsOf(S) == { l \in [1 .. Cardinality(S) -> S] : Range(l) = S }

\* ThreatCorrelator.find_correlations(current_scan) on the list read from
\* self.history_file: the set the returned list is made from
find_correlations(history, current_scan) ==
  LET hash_idx ==
        FirstRecord(history, { r \in Range(history) : IsRecurrence(r, current_scan) })
      variant_idx ==
        FirstRecord(history, { r \in Range(history) : IsVariant(r, current_scan) })
  IN  (IF hash_idx # 0 THEN {RecurrentHash} ELSE {})
        \cup (IF variant_idx # 0 THEN {HeuristicVariant(history[variant_idx].id)} ELSE {})

\* the entries find_similar_threats collects from the first n records
RECURSIVE SimilarIn(_, _, _, _)
SimilarIn(history, n, sha256, risk_score) ==
  IF n = 0 THEN <<>>
  ELSE LET record == history[n]
           before == SimilarIn(history, n - 1, sha256, risk_score)
           entry(type) == [type |-> type, id |-> record.id,
                           risk_score |-> record.risk_score]
       IN  IF record.sha256 = sha256 THEN Append(before, entry("Exact Match"))
           ELSE IF Abs(record.risk_score - risk_score) < 50
           THEN Append(before, entry("Risk Variant"))
           ELSE before

\* variant: the history read is the one of the configured file
find_similar_threats_Configured(fs, configured, sha256, risk_score) ==
  SliceTo(SimilarIn(fs[configured], Len(fs[configured]), sha256, risk_score),
          TopMatches)

\* ThreatCorrelator.find_similar_threats(sha256, risk_score) of a correlator
\* configured with history file `configured`, on the files fs
find_similar_threats(fs, configured, sha256, risk_score) ==
  SliceTo(SimilarIn(fs[DefaultPath], Len(fs[DefaultPath]), sha256, risk_score),
          TopMatches)

Idle == query = NoQuery

\* history = HistoryManager(history_file); the ThreatCorrelator is given
\* the same file
NewStore ==
  /\ history_file = NoPath
  /\ \E p \in Paths : history_file' = p
  /\ UNCHANGED <<files, log, query, answer>>
  /\ UNCHANGED <<ensemble, weights, engineVars, threadVars, predictorVars, detectorVars>>
  /\ UNCHANGED <<streamVars, raceVars, apiVars>>

\* history.add_record(record); log keeps every record added, newest first
AddRecord ==
  /\ history_file # NoPath
  /\ Idle
  /\ Len(log) <= MaxRecords
  /\ \E record \in Records :
       /\ files' = [files EXCEPT ![history_file] = add_record(files[history_file], record)]
       /\ log' = <<record>> \o log
       /\ query' = [op |-> "add_record", record |-> record]
  /\ answer' = [op |-> "add_record"]
  /\ UNCHANGED history_file
  /\ UNCHANGED <<ensemble, weights, engineVars, threadVars, predictorVars, detectorVars>>
  /\ UNCHANGED <<streamVars, raceVars, apiVars>>

\* history.get_history(limit)
GetHistory ==
  /\ history_file # NoPath
  /\ Idle
  /\ \E limit \in Limits :
       /\ query' = [op |-> "get_history", limit |-> limit]
       /\ answer' = [op |-> "get_history",
                     value |-> get_history(files[history_file], limit)]
  /\ UNCHANGED <<history_file, files, log>>
  /\ UNCHANGED <<ensemble, weights, engineVars, threadVars, predictorVars, detectorVars>>
  /\ UNCHANGED <<streamVars, raceVars, apiVars>>

\* ThreatCorrelator(history_file).find_correlations(current_scan)
FindCorrelations ==
  /\ history_file # NoPath
  /\ Idle
  /\ \E current_scan \in CurrentScans :
       /\ query' = [op |-> "find_correlations", current_scan |-> current_scan]
       /\ \E value \in ListsOf(find_correlations(files[history_file], current_scan)) :
            answer' = [op |-> "find_correlations", value |-> value]
  /\ UNCHANGED <<history_file, files, log>>
  /\ UNCHANGED <<ensemble, weights, engineVars, threadVars, predictorVars, detectorVars>>
  /\ UNCHANGED <<streamVars, raceVars, apiVars>>

\* ThreatCorrelator(history_file).find_similar_threats(sha256, risk_score)
FindSimilarThreats ==
  /\ history_file # NoPath
  /\ Idle
  /\ \E sha256 \in {"h1", "h2", "h9"}, risk_score \in {720, 730} :
       /\ query' = [op |-> "find_similar_threats", sha256 |-> sha256,
                    risk_score |-> risk_score]
       /\ answer' = [op |-> "find_similar_threats",
                     value |-> find_similar_threats(files, history_file,
                                                    sha256, risk_score)]
  /\ UNCHANGED <<history_file, files, log>>
  /\ UNCHANGED <<ensemble, weights, engineVars, threadVars, predictorVars, detectorVars>>
  /\ UNCHANGED <<streamVars, raceVars, apiVars>>

\* the caller takes the answer
StoreReturn ==
  /\ ~Idle
  /\ query' = NoQuery
  /\ answer' = NoAnswer
  /\ UNCHANGED <<history_file, files, log>>
  /\ UNCHANGED <<ensemble, weights, engineVars, threadVars, predictorVars, detectorVars>>
  /\ UNCHANGED <<streamVars, raceVars, apiVars>>

NextStore ==
  \/ NewStore
  \/ AddRecord
  \/ GetHistory
  \/ FindCorrelations
  \/ FindSimilarThreats
  \/ StoreReturn

SpecStore == Init /\ [][NextStore]_vars

-----------------------------------------------------------------------------
(* Properties of scan_file *)

Returned == pc = "returned"

SigRisk == verdict.layers.signature.risk_score
MLRisk == verdict.layers.ml.ml_risk_score
HeuRisk == verdict.layers.heuristic.risk_score

InScoreRange(x) == x >= 0 /\ x <= Points(100)

CallIs(content, stem, ext) ==
  /\ Returned
  /\ call.file_data.content = content
  /\ call.filename = [stem |-> stem, ext |-> ext]

\* C1: every layer score and the final score of a returned verdict lie in
\* [0, 100], in fallback mode and with an injected ensemble in any weight
\* state reached through tune_weights.
C1_ScoreBounds ==
  Returned =>
    /\ InScoreRange(SigRisk)
    /\ InScoreRange(MLRisk)
    /\ InScoreRange(HeuRisk)
    /\ InScoreRange(locals.final_risk_score)

C3_EicarDeterminism ==
  (Returned /\ Bytes(call.file_data).eicar) =>
    /\ SigRisk = Points(100)
    /\ verdict.detection = "MALICIOUS"

C3_Witness ==
  /\ CallIs("eicar", {"report"}, ".txt")
  /\ SigRisk = Points(100)
  /\ verdict.detection = "MALICIOUS"

\* C4: a .txt/.md/.log filename (any case) with signature risk 0, heuristic
\* risk 0 and filename bonus 0 gets final score <= 10 and CLEAN, whatever
\* the ML and fragmentation scores.
C4_BenignBias ==
  ( /\ Returned
    /\ splitext(call.filename) \in {".txt", ".md", ".log"}
    /\ SigRisk = 0
    /\ HeuRisk = 0
    /\ locals.filename_bonus = 0 ) =>
    /\ locals.final_risk_score <= Points(10)
    /\ verdict.detection = "CLEAN"

C4_Witness ==
  /\ Returned
  /\ call.filename.ext = ".LOG"
  /\ SigRisk = 0 /\ HeuRisk = 0 /\ locals.filename_bonus = 0
  /\ MLRisk >= Points(75)
  /\ locals.after_max_impact >= Points(71)
  /\ locals.frag_score > 0
  /\ verdict.detection = "CLEAN"

AnyLayerAtLeast(p) == SigRisk >= Points(p) \/ MLRisk >= Points(p) \/ HeuRisk >= Points(p)

\* C5 as stated: whenever a layer score is >= 75 the verdict is never CLEAN.
C5_Original ==
  (Returned /\ AnyLayerAtLeast(75)) => verdict.detection # "CLEAN"

\* C5: whenever a layer score is >= 75 the verdict is at least SUSPICIOUS,
\* unless the benign-bias cap applies (document extension, signature and
\* heuristic risk 0, no filename bonus), in which case it is CLEAN with a
\* score of at most 10.
C5_MaxImpactFloor ==
  (Returned /\ AnyLayerAtLeast(75)) =>
    IF /\ splitext(call.filename) \in {".txt", ".md", ".log"}
       /\ SigRisk = 0 /\ HeuRisk = 0 /\ locals.filename_bonus = 0
    THEN verdict.detection = "CLEAN" /\ locals.final_risk_score <= Points(10)
    ELSE verdict.detection # "CLEAN"

C5_Witness ==
  /\ Returned
  /\ AnyLayerAtLeast(75)
  /\ ~AnyLayerAtLeast(90)
  /\ locals.weighted_score < Points(40)
  /\ locals.filename_bonus = 0
  /\ ~locals.benign
  /\ verdict.detection # "CLEAN"

\* C6: if a layer score is >= 90, the score held after the max-impact
\* override (before filename boost and benign bias) is >= 0.95 times that
\* layer's score, and never below the weighted aggregate.
C6_MaxImpactMonotone ==
  Returned =>
    \A layer \in {SigRisk, MLRisk, HeuRisk} :
      layer >= Points(90) =>
        /\ 100 * locals.after_max_impact >= 95 * layer
        /\ locals.after_max_impact >= (35 * SigRisk + 25 * MLRisk + 25 * HeuRisk
                                        + 15 * locals.frag_score) \div 100

C6_Witness ==
  /\ Returned
  /\ HeuRisk >= Points(90)
  /\ SigRisk < HeuRisk /\ MLRisk < HeuRisk
  /\ 100 * locals.weighted_score < 95 * HeuRisk
  /\ 100 * locals.after_max_impact = 95 * HeuRisk

WithKeyword(filename, kw) == [filename EXCEPT !.stem = @ \cup {kw}]

\* the locals of a scan of the current buffer under the current filename with
\* the keyword "trojan" added to its stem
TrojanLocals ==
  scan_file(call.file_data, WithKeyword(call.filename, "trojan"),
            ensemble, weights, <<0, 0>>).locals
TrojanVerdict ==
  scan_file(call.file_data, WithKeyword(call.filename, "trojan"),
            ensemble, weights, <<0, 0>>).verdict

NoTrojan == ~Contains(filename_lowercase(call.filename), "trojan")

\* C7 as stated: the aggregate before the clamp to 100 is exactly 40 higher
\* for the filename that contains "trojan".
C7_Original ==
  (Returned /\ NoTrojan) =>
    TrojanLocals.preclamp = locals.preclamp + Points(40)

\* C7: for two filenames that differ only by the keyword "trojan" as a word
\* of the stem, the filename bonus is exactly 40 higher with the keyword and
\* the aggregate before the clamp is at least 40 higher: the heuristic layer
\* searches the filename too, so unless the content already matches "trojan"
\* the keyword adds 25 heuristic points (capped at 100), which can only raise
\* the score the bonus is added to; the difference is exactly 40 when the
\* heuristic score is the same for both names.
C7_FilenameAdditivity ==
  (Returned /\ NoTrojan) =>
    /\ TrojanLocals.filename_bonus = locals.filename_bonus + 40
    /\ TrojanLocals.preclamp >= locals.preclamp + Points(40)
    /\ TrojanVerdict.layers.heuristic.risk_score =
         IF "trojan" \in Bytes(call.file_data).hits THEN HeuRisk
         ELSE Min(HeuRisk + Points(25), Points(100))
    /\ TrojanVerdict.layers.heuristic.risk_score = HeuRisk =>
         TrojanLocals.preclamp = locals.preclamp + Points(40)

C7_Witness ==
  /\ Returned
  /\ NoTrojan
  /\ locals.filename_bonus = 40
  /\ TrojanLocals.filename_bonus = 80
  /\ TrojanLocals.preclamp > locals.preclamp + Points(40)

HasCaveat == \E i \in 1 .. Len(verdict.risk_breakdown) :
               verdict.risk_breakdown[i] = "Low Confidence"

\* C8: the breakdown holds the low-confidence caveat if and only if the score
\* the verdict is classified on lies in the 40-70 band and the ML confidence
\* is below 70%.
C8_CaveatMatchesFinalScore ==
  Returned =>
    ( HasCaveat <=>
        /\ locals.final_risk_score > Points(40)
        /\ locals.final_risk_score < Points(70)
        /\ locals.confidence < 70 * FDen )

\* C9 as stated: 2048 zero bytes named payload.bin, no ensemble: ML risk 30,
\* heuristic risk 0, fragmentation 0, final score equal to the weighted sum
\* of the layer values, detection CLEAN or SUSPICIOUS.
C9_Original ==
  (CallIs("zeros2048", {"payload"}, ".bin") /\ ~ensemble) =>
    /\ MLRisk = Points(30)
    /\ HeuRisk = 0
    /\ locals.frag_score = 0
    /\ locals.final_risk_score =
         (35 * SigRisk + 25 * MLRisk + 25 * HeuRisk + 15 * locals.frag_score) \div 100
    /\ verdict.detection \in {"CLEAN", "SUSPICIOUS"}

\* C9: 2048 zero bytes named payload.bin, no ensemble: signature risk 0, ML
\* fallback risk 30, heuristic risk 25 (the filename matches the pattern
\* "payload"), fragmentation 0; the final score is the weighted sum of the
\* layer values plus the filename bonus of 40, that is 53.75 (reported as
\* 53.8), and the detection is SUSPICIOUS.
C9_ZeroBufferScenario ==
  (CallIs("zeros2048", {"payload"}, ".bin") /\ ~ensemble) =>
    /\ SigRisk = 0
    /\ MLRisk = Points(30)
    /\ HeuRisk = Points(25)
    /\ locals.frag_score = 0
    /\ locals.filename_bonus = 40
    /\ locals.final_risk_score =
         (35 * SigRisk + 25 * MLRisk + 25 * HeuRisk + 15 * locals.frag_score) \div 100
         + Points(40)
    /\ 100 * locals.final_risk_score = Points(5375)
    /\ verdict.risk_score = 538
    /\ verdict.detection = "SUSPICIOUS"

C9_Witness ==
  /\ CallIs("zeros2048", {"payload"}, ".bin")
  /\ ~ensemble
  /\ verdict.layers.ml.entropy = 0
  /\ verdict.detection = "SUSPICIOUS"

\* a step of some thread inside scan_file
ScanStep == \E t \in Threads : tpc'[t] # tpc[t]

\* C10: scan_file keeps no state across calls: no step of a scan_file call
\* changes the engine's ensemble or its weights, and any two calls with the
\* same bytes and filename return verdicts equal in every field but
\* scan_time_ms and timestamp, whatever calls ran before or in between.
C10_NoCrossCallState ==
  /\ [][ScanStep => UNCHANGED <<ensemble, weights>>]_vars
  /\ [](\A p, q \in seen : p.call = q.call => p.verdict = q.verdict)

\* both threads hold a verdict for the same call, taken at different times,
\* after a call with other arguments has been served
C10_Witness ==
  /\ tpc["t1"] = "returned" /\ tpc["t2"] = "returned"
  /\ tcall["t1"] = tcall["t2"]
  /\ tverdict["t1"].timestamp # tverdict["t2"].timestamp
  /\ WithoutTime(tverdict["t1"]) = WithoutTime(tverdict["t2"])
  /\ \E p \in seen : p.call # tcall["t1"]
  /\ ensemble /\ weights # InitialWeights

-----------------------------------------------------------------------------
(* Properties of Predictor.predict *)

PReturned == presult # NoResult

PRows == IF PReturned THEN 1 .. Len(presult.X) ELSE {}

\* the index of the normal class among the model's classes, or 0
PNormalIdx ==
  IF predictor.model.classes_ = NoneValue THEN 0
  ELSE FirstIndex(predictor.model.classes_,
                  NormalLabels(predictor, predictor.model.classes_))

\* the model's probability for the label it predicted on row i
PPredictedProba(i) == presult.proba[i][presult.X[i].pred]

\* row i: the predicted label has a threshold and the model's probability
\* for it is below that threshold
BelowThreshold(i) ==
  /\ presult.proba # NoneValue
  /\ presult.raw_y[i] \in DOMAIN predictor.per_class_thresholds
  /\ PPredictedProba(i) < predictor.per_class_thresholds[presult.raw_y[i]]

Downgradable(i) == BelowThreshold(i) /\ PNormalIdx # 0

\* C11 as stated: a row whose predicted label is below its threshold comes
\* back with the normal class as label and the normal class's probability as
\* returned confidence.
C11_Original ==
  \A i \in PRows :
    Downgradable(i) =>
      /\ presult.y_pred[i] = predictor.model.classes_[PNormalIdx]
      /\ presult.confidence[i] = presult.proba[i][PNormalIdx]

\* C11 amended: a row whose predicted label is below its threshold comes back
\* with the normal class as label; the normal class's probability is its
\* confidence before smoothing, and the returned confidence whenever
\* smoothing_window <= 1.
C11_Downgrade ==
  \A i \in PRows :
    Downgradable(i) =>
      /\ presult.y_pred[i] = predictor.model.classes_[PNormalIdx]
      /\ presult.adj_conf[i] = presult.proba[i][PNormalIdx]
      /\ predictor.smoothing_window <= 1 =>
           presult.confidence[i] = presult.proba[i][PNormalIdx]

\* a downgraded row of a smoothing predictor whose label and confidence
\* both changed
C11_Witness ==
  \E i \in PRows :
    /\ Downgradable(i)
    /\ presult.raw_y[i] # presult.y_pred[i]
    /\ presult.raw_conf[i] # presult.adj_conf[i]
    /\ predictor.smoothing_window > 1
    /\ presult.confidence[i] # presult.adj_conf[i]

\* the position, among all rows the instance has scored, of row i of the
\* last batch
StreamIndex(i) == Len(pstream) - Len(presult.X) + i

\* the last min(k, n) values of the stream up to and including the k-th
LastOf(k, n) == SubSeq(pstream, k - Min(k, n) + 1, k)

\* C12: with smoothing_window = N > 1 the confidence returned for the k-th
\* row an instance scores is the mean of the post-thresholding confidences of
\* the last min(k, N) rows up to and including row k.
C12_MovingAverage ==
  predictor # NoPredictor /\ predictor.smoothing_window > 1 =>
    \A i \in PRows :
      presult.confidence[i] =
        Mean(LastOf(StreamIndex(i), predictor.smoothing_window))

\* a row scored after an older value has been evicted, the evicted value
\* being different from every value still in the window
C12_Witness ==
  /\ predictor # NoPredictor
  /\ predictor.smoothing_window > 1
  /\ \E i \in PRows :
       /\ StreamIndex(i) > predictor.smoothing_window
       /\ \A j \in 1 .. predictor.smoothing_window :
            pstream[StreamIndex(i) - predictor.smoothing_window]
              # pstream[StreamIndex(i) - j + 1]

\* C13: with smoothing_window <= 1 every returned confidence is the row's
\* own post-thresholding confidence, whatever was scored before.
C13_NoSmoothing ==
  predictor # NoPredictor /\ predictor.smoothing_window <= 1 =>
    \A i \in PRows : presult.confidence[i] = presult.adj_conf[i]

\* a second call on an instance with smoothing_window = 1 whose rows differ
\* from the rows scored before
C13_Witness ==
  /\ predictor # NoPredictor
  /\ predictor.smoothing_window = 1
  /\ PReturned
  /\ Len(pstream) > Len(presult.X)
  /\ Len(presult.X) > 1
  /\ pstream[1] # presult.adj_conf[1]
  /\ presult.adj_conf[1] # presult.adj_conf[2]

\* a step in which predict returns
PredictStep == pstream' # pstream

HistoryBounded ==
  /\ predictor.smoothing_window > 1 =>
       Len(score_history) <= predictor.smoothing_window
  /\ predictor.smoothing_window <= 1 => score_history = <<>>

\* C14: a predict call leaves the Predictor's model and configuration as
\* they were, and leaves a history of at most smoothing_window values when
\* smoothing_window > 1 and an empty history otherwise.
C14_OnlyHistoryChanges ==
  [][PredictStep => predictor' = predictor /\ HistoryBounded']_vars

\* a full history after more rows than the window holds
C14_Witness ==
  /\ predictor # NoPredictor
  /\ predictor.smoothing_window > 1
  /\ Len(score_history) = predictor.smoothing_window
  /\ Len(pstream) > predictor.smoothing_window

\* C16: a row's severity is "Low" when its returned label is a normal-class
\* name in any letter case; otherwise "High" from a returned confidence of
\* 0.9, "Medium" from 0.7, "Low" below; a downgraded row is always "Low".
C16_Severity ==
  \A i \in PRows :
    /\ presult.severity[i] =
         IF lower(presult.y_pred[i]) \in {"normal", "benign"} THEN "Low"
         ELSE IF 10 * presult.confidence[i] >= 9 * CDen THEN "High"
         ELSE IF 10 * presult.confidence[i] >= 7 * CDen THEN "Medium"
         ELSE "Low"
    /\ Downgradable(i) => presult.severity[i] = "Low"

\* a batch with a downgraded row returned at confidence 0.9 and an attack
\* row of severity "High"
C16_Witness ==
  \E i, j \in PRows :
    /\ Downgradable(i)
    /\ presult.raw_y[i] # presult.y_pred[i]
    /\ presult.y_pred[i] = "Normal"
    /\ presult.confidence[i] = Tenths(9)
    /\ presult.severity[j] = "High"

Supports(capability) == capability \in predictor.model.caps

\* C17: the confidence comes from the row maximum of predict_proba when the
\* model has it, whether or not it has decision_function; else from the
\* logistic transform of decision_function; else it is 1.0 on every row, no
\* row is thresholded and proba is None.  It is the returned confidence of
\* every row that is neither downgraded nor smoothed.
C17_ConfidenceSource ==
  PReturned =>
    /\ \A i \in PRows :
         /\ Supports("predict_proba") =>
              /\ presult.proba # NoneValue
              /\ presult.raw_conf[i] = Max(presult.proba[i][1], presult.proba[i][2])
         /\ ~Supports("predict_proba") /\ Supports("decision_function") =>
              /\ presult.raw_conf[i] = Logistic(presult.X[i].score)
              /\ presult.adj_conf[i] = presult.raw_conf[i]
         /\ ~Supports("predict_proba") /\ ~Supports("decision_function") =>
              /\ presult.raw_conf[i] = CDen
              /\ presult.confidence[i] = CDen
              /\ presult.y_pred[i] = presult.raw_y[i]
         /\ predictor.smoothing_window <= 1 /\ ~Downgradable(i) =>
              presult.confidence[i] = presult.raw_conf[i]
    /\ ~Supports("predict_proba") => presult.proba = NoneValue

\* a model with both capabilities scored a row whose row maximum is not the
\* logistic transform of its decision score
C17_Witness ==
  /\ PReturned
  /\ Supports("predict_proba")
  /\ Supports("decision_function")
  /\ \E i \in PRows :
       /\ presult.raw_conf[i] # Logistic(presult.X[i].score)
       /\ presult.confidence[i] = presult.raw_conf[i]

\* a model with neither capability scored rows under configured thresholds
C17_WitnessNeither ==
  /\ PReturned
  /\ predictor.model.caps = {}
  /\ DOMAIN predictor.per_class_thresholds # {}
  /\ predictor.smoothing_window > 1
  /\ Len(pstream) > Len(presult.X)

\* thresholds are configured and the normal class cannot be located
Misconfigured ==
  /\ predictor # NoPredictor
  /\ DOMAIN predictor.per_class_thresholds # {}
  /\ PNormalIdx = 0

\* C18 as stated: with thresholds configured and no normal class among the
\* model's classes, every row is returned with the label and the confidence
\* it had before thresholding.
C18_Original ==
  Misconfigured =>
    \A i \in PRows :
      /\ presult.y_pred[i] = presult.raw_y[i]
      /\ presult.confidence[i] = presult.raw_conf[i]

\* C18 amended: with thresholds configured and no normal class among the
\* model's classes, thresholding changes no row: the returned label is the
\* predicted label, the confidence handed to smoothing is the confidence
\* before thresholding, and it is the returned confidence whenever
\* smoothing_window <= 1.
C18_ThresholdingSkipped ==
  Misconfigured =>
    \A i \in PRows :
      /\ presult.y_pred[i] = presult.raw_y[i]
      /\ presult.adj_conf[i] = presult.raw_conf[i]
      /\ predictor.smoothing_window <= 1 =>
           presult.confidence[i] = presult.raw_conf[i]

\* a row below its threshold scored by a model whose classes hold no normal
\* class
C18_Witness ==
  /\ Misconfigured
  /\ predictor.model.classes_ # NoneValue
  /\ \E i \in PRows : BelowThreshold(i)

\* C15: every confidence Predictor.predict returns lies in [0, 1], and the
\* confidence of every scan_file verdict, a percentage in tenths, lies in
\* [0, 100].
C15_ConfidenceRange ==
  /\ \A i \in PRows :
       /\ presult.confidence[i] >= 0
       /\ presult.confidence[i] <= CDen
  /\ Returned => verdict.confidence >= 0 /\ 10 * 100 >= verdict.confidence

\* a verdict whose ensemble score exceeds 1 and whose confidence is 100
C15_WitnessEngine ==
  /\ Returned
  /\ verdict.layers.ml.ml_risk_score > 100 * FDen
  /\ verdict.confidence = 10 * 100

\* a Predictor on the logistic path returning a smoothed confidence
C15_Witness ==
  /\ PReturned
  /\ predictor.smoothing_window > 1
  /\ ~Supports("predict_proba")
  /\ Supports("decision_function")
  /\ \E i \in PRows : presult.confidence[i] # presult.adj_conf[i]

-----------------------------------------------------------------------------
(* Properties of HybridThreatDetector *)

SumWeights == weights["rf"] + weights["pattern"] + weights["anomaly"]

\* C19: in every reachable state each ensemble weight is >= 0 and the three
\* weights sum to 1.0.
C19_WeightsNormalized ==
  /\ \A k \in DOMAIN weights : weights[k] >= 0
  /\ SumWeights = WDen

\* the non-negative half of C19, which the code keeps
C19_WeightsNonNegative == \A k \in DOMAIN weights : weights[k] >= 0

EReturned == eresult # NoResult

ESamples == IF EReturned THEN 1 .. Len(ecall) ELSE {}

\* C20: for every sample, final_prediction is 1 exactly when final_score >
\* 0.5 and confidence is min(1, 2 * |final_score - 0.5|): 0 exactly at
\* final_score = 0.5, where the label is 0, and 1 at final_score 0 or 1.
C20_DecisionAndConfidence ==
  \A i \in ESamples :
    LET final_score == eresult.final_score[i]
        confidence == eresult.confidence[i]
    IN  /\ eresult.final_prediction[i] = 1 <=> 2 * final_score > FDen
        /\ eresult.final_prediction[i] \in {0, 1}
        /\ confidence = Min(FDen, Abs(2 * final_score - FDen))
        /\ confidence = 0 <=> 2 * final_score = FDen
        /\ 2 * final_score = FDen => eresult.final_prediction[i] = 0
        /\ final_score \in {0, FDen} => confidence = FDen

\* one batch with a sample scored exactly 0.5 and a sample scored exactly 1
C20_Witness ==
  \E i, j \in ESamples :
    /\ 2 * eresult.final_score[i] = FDen
    /\ eresult.final_score[j] = FDen
    /\ eresult.confidence[i] = 0
    /\ eresult.confidence[j] = FDen

-----------------------------------------------------------------------------
(* Properties of concurrent Predictor.predict calls *)

StreamReturned(t) == streams[t].pc = "returned"

\* what the call of stream t returns when it runs alone from history h
SerialFrom(h, t) ==
  _apply_smoothing(StreamPredictor(swindow), h, streams[t].conf)

\* the result of stream t's call in the two serial orders of the calls of
\* t and u on the shared instance
SerialFirst(t) == SerialFrom(base, t).conf
SerialSecond(t, u) == SerialFrom(SerialFrom(base, u).history, t).conf

\* C21: a call on a stream's own instance returns what it returns when run
\* alone, whatever the other streams do, and so does a call on the shared
\* instance that no other call's append overlaps; a call on the shared
\* instance that is overlapped can return a value no serial order gives
\* (C21_Witness).
C21_PerStreamIsolation ==
  \A t \in Threads :
    StreamReturned(t) =>
      /\ streams[t].own => streams[t].out = SerialFrom(streams[t].start, t).conf
      /\ ~streams[t].overlapped =>
           streams[t].out = SerialFrom(streams[t].start, t).conf

\* two overlapping calls on the shared instance, one of which returned for
\* some row a value that neither serial order of the two calls gives it
C21_Witness ==
  \E t \in Threads : \E u \in Threads \ {t} :
    /\ StreamReturned(t) /\ StreamReturned(u)
    /\ ~streams[t].own /\ ~streams[u].own
    /\ streams[t].overlapped
    /\ \E i \in 1 .. Len(streams[t].out) :
         /\ streams[t].out[i] # SerialFirst(t)[i]
         /\ streams[t].out[i] # SerialSecond(t, u)[i]

\* two calls on the streams' own instances, returned in the same round
C21_WitnessOwn ==
  \E t \in Threads : \E u \in Threads \ {t} :
    /\ StreamReturned(t) /\ StreamReturned(u)
    /\ streams[t].own /\ streams[u].own
    /\ Len(streams[t].start) > 0
    /\ Len(streams[t].out) > 1

-----------------------------------------------------------------------------
(* Properties of tune_weights concurrent with predict *)

ReadReturned == reader.pc = "returned"

ReadSamples == IF ReadReturned THEN 1 .. Len(reader.X) ELSE {}

SumOfContributions(i) ==
  reader.result.rf_contribution[i] + reader.result.cnn_contribution[i]
    + reader.result.ae_contribution[i]

\* C22: when the callers serialize tune_weights with predict, and whenever
\* no write fell inside the predict call, final_score is the sum of the three
\* returned contributions for every sample; without serialization predict can
\* return a final_score that is not that sum and is the score of neither the
\* old nor the new weights (C22_Witness).
C22_SerializedConsistency ==
  ReadReturned /\ (discipline = "locked" \/ ~reader.raced) =>
    \A i \in ReadSamples : reader.result.final_score[i] = SumOfContributions(i)

\* an unserialized predict that overlapped a tune_weights call and returned,
\* for some sample, a final_score that differs from the sum of the returned
\* contributions, from the score under the old weights and from the score
\* under the new weights
C22_Witness ==
  /\ ReadReturned
  /\ discipline = "unlocked"
  /\ tuner.pc = "done"
  /\ \E i \in ReadSamples :
       /\ reader.result.final_score[i] # SumOfContributions(i)
       /\ reader.result.final_score[i] # predict(tuner.old, reader.X).final_score[i]
       /\ reader.result.final_score[i] # predict(tuner.new, reader.X).final_score[i]

\* a serialized predict that ran after a tune_weights call of the same round
C22_WitnessLocked ==
  /\ ReadReturned
  /\ discipline = "locked"
  /\ tuner.pc = "done"
  /\ tuner.old # tuner.new

-----------------------------------------------------------------------------
(* Properties of HistoryManager and ThreatCorrelator *)

Stored == files[history_file]

Answered(op) == answer.op = op /\ query.op = op

\* the stored list is the min(n, max_records) most recently added records,
\* newest first
StoredIsNewestFirst ==
  history_file # NoPath =>
    Stored = SubSeq(log, 1, Min(Len(log), MaxRecords))

\* C23 as stated: the stored list holds the min(n, max_records) newest
\* records, newest first, and get_history(limit) returns the first
\* min(limit, length) of them, for every limit.
C23_Original ==
  /\ StoredIsNewestFirst
  /\ Answered("get_history") =>
       answer.value = SubSeq(Stored, 1, Min(query.limit, Len(Stored)))

\* C23 amended: the stored list holds the min(n, max_records) newest
\* records, newest first, and for every limit >= 0 get_history(limit)
\* returns the first min(limit, length) of them.
C23_BoundedNewestFirst ==
  /\ StoredIsNewestFirst
  /\ Answered("get_history") /\ query.limit >= 0 =>
       answer.value = SubSeq(Stored, 1, Min(query.limit, Len(Stored)))

\* more records added than the store keeps, the evicted one different from
\* the oldest one kept, and a get_history that cuts the list short
C23_Witness ==
  /\ Answered("get_history")
  /\ Len(log) > MaxRecords
  /\ log[Len(log)] # log[MaxRecords]
  /\ log[1] # log[2]
  /\ query.limit > 0
  /\ query.limit < Len(Stored)

Count(seq, x) == Cardinality({ i \in 1 .. Len(seq) : seq[i] = x })

\* C24: find_correlations returns "Recurrent Hash" exactly when a stored
\* record of any detection class has the current scan's sha256 and another
\* id, and returns it at most once.
C24_RecurrentHash ==
  Answered("find_correlations") =>
    /\ RecurrentHash \in Range(answer.value) <=>
         \E i \in 1 .. Len(Stored) :
           /\ Stored[i].sha256 = query.current_scan.sha256
           /\ Stored[i].id # query.current_scan.id
    /\ Count(answer.value, RecurrentHash) <= 1

\* the current scan's own record is stored, and so are several records of
\* another id with its hash: the signal is returned once
C24_Witness ==
  /\ Answered("find_correlations")
  /\ Count(answer.value, RecurrentHash) = 1
  /\ query.current_scan \in Range(Stored)
  /\ Cardinality({ i \in 1 .. Len(Stored) :
                     /\ Stored[i].sha256 = query.current_scan.sha256
                     /\ Stored[i].id # query.current_scan.id }) > 1

\* only the current scan's own record has its hash: no signal
C24_WitnessSelf ==
  /\ Answered("find_correlations")
  /\ query.current_scan \in Range(Stored)
  /\ RecurrentHash \notin Range(answer.value)

\* the stored records that are variants of the current scan
VariantIndices ==
  { i \in 1 .. Len(Stored) :
      /\ Stored[i].detection = "MALICIOUS"
      /\ Abs(Stored[i].entropy - query.current_scan.entropy) < 5
      /\ Abs(Stored[i].risk_score - query.current_scan.risk_score) < 5 * 10
      /\ Stored[i].sha256 # query.current_scan.sha256 }

VariantSignals == { x \in Range(answer.value) : x.signal = "Heuristic Variant" }

\* C25: find_correlations returns a "Heuristic Variant" signal exactly when
\* some stored MALICIOUS record with another sha256 is strictly within 0.05
\* bit of entropy and 5 points of risk of the current scan, and the signal
\* names the id of the first such record.
C25_HeuristicVariant ==
  Answered("find_correlations") =>
    /\ VariantSignals # {} <=> VariantIndices # {}
    /\ VariantIndices # {} =>
         LET first == CHOOSE i \in VariantIndices : \A j \in VariantIndices : i <= j
         IN  VariantSignals = {HeuristicVariant(Stored[first].id)}

\* two stored variants with different ids behind a nearer record that is not
\* MALICIOUS
C25_Witness ==
  /\ Answered("find_correlations")
  /\ Cardinality({ Stored[i].id : i \in VariantIndices }) > 1
  /\ \E i \in 1 .. Len(Stored) :
       /\ \A j \in VariantIndices : i < j
       /\ Stored[i].detection # "MALICIOUS"
       /\ Abs(Stored[i].entropy - query.current_scan.entropy) < 5
       /\ Abs(Stored[i].risk_score - query.current_scan.risk_score) < 5 * 10

\* the stored records find_similar_threats(sha256, risk_score) matches
SimilarIndices ==
  { i \in 1 .. Len(Stored) :
      \/ Stored[i].sha256 = query.sha256
      \/ Abs(Stored[i].risk_score - query.risk_score) < 5 * 10 }

\* the i-th least member of a set of numbers
RECURSIVE Nth(_, _)
Nth(S, i) ==
  LET least == CHOOSE x \in S : \A y \in S : x <= y
  IN  IF i = 1 THEN least ELSE Nth(S \ {least}, i - 1)

\* C26: find_similar_threats, on the store the correlator was configured
\* with, returns the first five matching stored records in history order,
\* each tagged "Exact Match" if and only if its sha256 is the queried one and
\* "Risk Variant" otherwise.
C26_SimilarThreats ==
  Answered("find_similar_threats") =>
    /\ Len(answer.value) = Min(Cardinality(SimilarIndices), TopMatches)
    /\ \A k \in 1 .. Len(answer.value) :
         LET record == Stored[Nth(SimilarIndices, k)]
         IN  /\ answer.value[k].id = record.id
             /\ answer.value[k].risk_score = record.risk_score
             /\ answer.value[k].type =
                  IF record.sha256 = query.sha256 THEN "Exact Match"
                  ELSE "Risk Variant"

-----------------------------------------------------------------------------
(* Further properties of scan_file *)

\* C27: the reported risk_score (one decimal) agrees with the reported
\* detection and severity under the 40/70/90 cut-offs: >= 70 exactly for
\* MALICIOUS, >= 40 exactly for not CLEAN, > 90 exactly for Critical.
C27_ReportedScoreConsistent ==
  Returned =>
    /\ verdict.risk_score >= 70 * 10 <=> verdict.detection = "MALICIOUS"
    /\ verdict.risk_score >= 40 * 10 <=> verdict.detection # "CLEAN"
    /\ verdict.risk_score > 90 * 10 <=> verdict.severity = "Critical"

\* C28: every returned verdict has a non-empty risk_breakdown, a verdict
\* whose score was raised only by the filename-intent boost included.
C28_BreakdownNonEmpty ==
  Returned => Len(verdict.risk_breakdown) > 0

\* the part of C28 the code keeps: every CLEAN verdict has an explanation
C28_CleanIsExplained ==
  Returned /\ verdict.detection = "CLEAN" => Len(verdict.risk_breakdown) > 0

-----------------------------------------------------------------------------
(* Single-row batches of HybridThreatDetector.predict *)

\* X = features.reshape(1, -1): the shape MLScanner.scan and /predict issue
SingleRow == eresult # NoResult /\ Len(ecall) = 1

\* C29: on a single-row batch the anomaly term vanishes (the score is
\* min-max normalised within the batch), so ae_contribution is 0 and
\* final_score is at most w_rf + w_pattern; with the default weights that is
\* at most 0.8, and the confidence of an attack decision is at most 0.6.
C29_SingleRowAnomalyVanishes ==
  SingleRow =>
    /\ get_reconstruction_error(<<ecall[1].iso>>) = <<0>>
    /\ eresult.ae_contribution[1] = 0
    /\ eresult.final_score[1] = eresult.rf_contribution[1] + eresult.cnn_contribution[1]
    /\ eresult.final_score[1] <= (weights["rf"] + weights["pattern"]) * PDen
    /\ weights = InitialWeights =>
         /\ 10 * eresult.final_score[1] <= 8 * FDen
         /\ eresult.final_prediction[1] = 1 => 10 * eresult.confidence[1] <= 6 * FDen

\* a single row both classifiers call an attack and whose raw anomaly
\* score is the lowest a sample can have, under the default weights: the
\* score is exactly 0.8 and the confidence exactly 0.6
C29_Witness ==
  /\ SingleRow
  /\ weights = InitialWeights
  /\ ecall[1] = [rf |-> PDen, pattern |-> PDen, iso |-> 0]
  /\ 10 * eresult.final_score[1] = 8 * FDen
  /\ eresult.final_prediction[1] = 1
  /\ 10 * eresult.confidence[1] = 6 * FDen

\* the same row in a batch of two gets the full anomaly term
C29_WitnessBatch ==
  /\ eresult # NoResult
  /\ Len(ecall) = 2
  /\ weights = InitialWeights
  /\ ecall[1] = [rf |-> PDen, pattern |-> PDen, iso |-> 0]
  /\ eresult.ae_contribution[1] = weights["anomaly"] * PDen
  /\ eresult.final_score[1] = FDen

-----------------------------------------------------------------------------
(* The scan endpoints of the API: /initialize, /malware/scan and           *)
(* /malware/history over the module-level engine and history store.  The    *)
(* handlers are coroutines without an await inside, so each runs to its end *)
(* before the next request is served.                                       *)

\* requests served in one run: enough to fill the store and evict a record
MaxRequests == MaxRecords + 1

\* uploads: one the engine calls SUSPICIOUS, one it calls MALICIOUS
ApiUploads ==
  { [file |-> [content |-> "zeros2048", rf |-> 0, pattern |-> 0],
     filename |-> [stem |-> {"stealth"}, ext |-> ""]],
    [file |-> [content |-> "eicar", rf |-> PDen, pattern |-> PDen],
     filename |-> [stem |-> {"Trojan"}, ext |-> ".exe"]] }

\* str(uuid.uuid4())[:8]: eight hexadecimal characters of a random UUID
ScanIds == {"1f0c9a3e", "b7d2406a"}

\* the limit parameter of /malware/history
ApiLimits == {-1, 2, MaxRecords + 1}

\* MalwareEngine(ensemble=detector), the detector freshly built
NewEngine == [ensemble |-> TRUE, weights |-> InitialWeights]

\* malware_engine.scan_file(file, filename) for each upload; the engine is
\* the one /initialize builds and nothing tunes its detector
scan_results ==
  [upload \in ApiUploads |->
     scan_file(upload.file, upload.filename, NewEngine.ensemble,
               NewEngine.weights, <<0, 0>>).verdict]

\* variant: is_malicious set for every verdict that is not CLEAN
upload_and_scan_FlagNotClean(engine, data, upload, scan_id, now) ==
  IF engine = NoEngine
  THEN [response |-> [endpoint |-> "/malware/scan", status_code |-> 503,
                      detail |-> "Malware engine not initialized"],
        history |-> data]
  ELSE LET result == scan_results[upload]
           record == [id |-> scan_id,
                      is_malicious |-> result.detection # "CLEAN"]
                     @@ [result EXCEPT !.timestamp = now]
       IN  [response |-> [endpoint |-> "/malware/scan", status_code |-> 200,
                          body |-> record],
            history |-> add_record(data, record)]

\* upload_and_scan(file, filename) of an upload, on engine and on the stored
\* list data, with the id and the clock reading it draws: the response, and
\* the list the store holds afterwards
upload_and_scan(engine, data, upload, scan_id, now) ==
  IF engine = NoEngine
  THEN [response |-> [endpoint |-> "/malware/scan", status_code |-> 503,
                      detail |-> "Malware engine not initialized"],
        history |-> data]
  ELSE LET result == scan_results[upload]
           record == [id |-> scan_id,
                      is_malicious |-> result.detection = "MALICIOUS"]
                     @@ [result EXCEPT !.timestamp = now]
       IN  [response |-> [endpoint |-> "/malware/scan", status_code |-> 200,
                          body |-> record],
            history |-> add_record(data, record)]

\* POST /initialize (also run at startup): builds the engine, or fails and
\* leaves the globals as they were
InitializeModels ==
  /\ \E built \in BOOLEAN :
       /\ malware_engine' = IF built THEN NewEngine ELSE malware_engine
       /\ response' = [endpoint |-> "/initialize", status_code |-> 200,
                       body |-> IF built THEN "message" ELSE "error"]
  /\ UNCHANGED <<api_history, scans>>
  /\ UNCHANGED <<ensemble, weights, engineVars, threadVars, predictorVars, detectorVars>>
  /\ UNCHANGED <<streamVars, raceVars, storeVars>>

\* POST /malware/scan; scans keeps every stored record, newest first
UploadAndScan ==
  /\ Len(scans) < MaxRequests
  /\ \E upload \in ApiUploads, scan_id \in ScanIds :
       LET served == upload_and_scan(malware_engine, api_history, upload,
                                     scan_id, Len(scans) + 1)
       IN  /\ response' = served.response
           /\ api_history' = served.history
           /\ scans' = IF served.response.status_code = 200
                       THEN <<served.response.body>> \o scans
                       ELSE scans
  /\ UNCHANGED malware_engine
  /\ UNCHANGED <<ensemble, weights, engineVars, threadVars, predictorVars, detectorVars>>
  /\ UNCHANGED <<streamVars, raceVars, storeVars>>

\* GET /malware/history?limit=
GetMalwareHistory ==
  /\ \E limit \in ApiLimits :
       response' = [endpoint |-> "/malware/history", status_code |-> 200,
                    limit |-> limit,
                    body |-> get_history(api_history, limit)]
  /\ UNCHANGED <<malware_engine, api_history, scans>>
  /\ UNCHANGED <<ensemble, weights, engineVars, threadVars, predictorVars, detectorVars>>
  /\ UNCHANGED <<streamVars, raceVars, storeVars>>

NextApi ==
  \/ InitializeModels
  \/ UploadAndScan
  \/ GetMalwareHistory

SpecApi == Init /\ [][NextApi]_vars

-----------------------------------------------------------------------------
(* Properties of the scan endpoint *)

\* the step answers a /malware/scan request
ScanRequest == response'.endpoint = "/malware/scan"

\* what a /malware/scan request does to the store and puts in its answer
ScanEffect ==
  IF malware_engine = NoEngine
  THEN /\ response'.status_code = 503
       /\ api_history' = api_history
  ELSE /\ response'.status_code = 200
       /\ Len(api_history') = Min(Len(api_history) + 1, MaxRecords)
       /\ api_history'[1] = response'.body
       /\ \A i \in 2 .. Len(api_history') : api_history'[i] = api_history[i - 1]
       /\ response'.body.id \in ScanIds
       /\ response'.body.is_malicious <=> response'.body.detection = "MALICIOUS"

\* the id of the new record is the id of no stored record
FreshId ==
  malware_engine # NoEngine =>
    \A i \in 1 .. Len(api_history) : api_history[i].id # response'.body.id

\* s is the beginning of t
IsPrefix(s, t) == Len(s) <= Len(t) /\ s = SubSeq(t, 1, Len(s))

\* what /malware/history answers: successful scans only, newest first, and
\* all of them when the limit and the store are large enough
HistoryAnswer ==
  /\ api_history = SliceTo(scans, MaxRecords)
  /\ \A i \in 1 .. Len(scans) : scans[i].timestamp = Len(scans) + 1 - i
  /\ response.endpoint = "/malware/history" =>
       /\ IsPrefix(response.body, scans)
       /\ response.limit >= Len(scans) /\ Len(scans) <= MaxRecords =>
            response.body = scans

\* C30 as stated: a request to an uninitialized engine gets 503 and leaves
\* the store alone; a request to an initialized engine puts one record at
\* the front of the store, the record returned, with a fresh id and
\* is_malicious exactly for MALICIOUS; get_history returns the successful
\* scans newest-first.
C30_Original ==
  /\ [][ScanRequest => ScanEffect /\ FreshId]_vars
  /\ []HistoryAnswer

\* C30 amended: the same, with an id that is eight characters of a random
\* UUID and may equal the id of a stored record.
C30_ScanEndpoint ==
  /\ [][ScanRequest => ScanEffect]_vars
  /\ []HistoryAnswer

\* a MALICIOUS scan answered and stored in front of a SUSPICIOUS one
C30_Witness ==
  /\ response.endpoint = "/malware/scan"
  /\ response.status_code = 200
  /\ Len(api_history) >= 2
  /\ api_history[1] = response.body
  /\ response.body.detection = "MALICIOUS" /\ response.body.is_malicious
  /\ api_history[2].detection = "SUSPICIOUS" /\ ~api_history[2].is_malicious

\* a request refused while the engine was not initialized
C30_WitnessRefused ==
  /\ response.endpoint = "/malware/scan"
  /\ response.status_code = 503
  /\ malware_engine = NoEngine
  /\ api_history = <<>>

\* the store full, its oldest record evicted
C30_WitnessFull ==
  /\ Len(scans) = MaxRecords + 1
  /\ Len(api_history) = MaxRecords
  /\ response.endpoint = "/malware/history"
  /\ response.body = api_history

====
